---- MODULE Spec2Model ----
(***************************************************************************)
(* Verification model of the jarvs RISC-V simulator:                       *)
(*   - the five-stage pipelined datapath (signal graph, pipeline           *)
(*     registers, hazard detection, forwarding, processor tick);           *)
(*   - the timed memory hierarchy (main memory and cache generators).      *)
(*                                                                         *)
(* A Word is modelled by the signed 32-bit integer with the same bit       *)
(* pattern.  An instruction word is modelled by the tuple of its six       *)
(* R-format bit fields (opcode 0..6, rd 7..11, funct3 12..14, rs1 15..19,  *)
(* rs2 20..24, funct7 25..31), which is a lossless view of the 32 bits.    *)
(***************************************************************************)
EXTENDS Integers, Sequences, FiniteSets, TLC

\* ------------------------------------------------------------------ bounds
\* longest program placed in instruction memory
MaxProgLen == 3
\* number of executeOneCycle calls explored per run
MaxCycles == 14
\* number of executeOneCycle calls of a run of the integration tests
TestCycles == 40
\* largest latency explored of a main memory and of a cache
MaxLatency == 2
\* number of operations (completed readBlock or writeBlock) per cache run
MaxOps == 3
\* number of operations per cache run on a single set of two or four lines
MaxLruOps == 5
\* number of operations per cache run of a driver that never gives up
MaxLiveOps == 2
\* calls the driver of a main memory makes
MaxMemCalls == 5

\* ------------------------------------------------------------- 32-bit words
MaxInt32 == 2147483647
MinInt32 == (-2147483647) - 1

\* int32_t addition with two's complement wrap-around
Add32(a, b) ==
  IF a > 0 /\ b > 0 /\ a > MaxInt32 - b THEN (a + MinInt32) + (b + MinInt32)
  ELSE IF a < 0 /\ b < 0 /\ a < MinInt32 - b THEN (a - MinInt32) + (b - MinInt32)
  ELSE a + b

\* int32_t subtraction with two's complement wrap-around
Sub32(a, b) ==
  IF b = MinInt32 THEN Add32(Add32(a, MaxInt32), 1) ELSE Add32(a, 0 - b)

RECURSIVE And32(_, _)
And32(a, b) ==
  IF a = 0 \/ b = 0 THEN 0
  ELSE IF a = -1 THEN b
  ELSE IF b = -1 THEN a
  ELSE 2 * And32(a \div 2, b \div 2) + ((a % 2) * (b % 2))

RECURSIVE Or32(_, _)
Or32(a, b) ==
  IF a = 0 THEN b
  ELSE IF b = 0 THEN a
  ELSE IF a = -1 \/ b = -1 THEN -1
  ELSE 2 * Or32(a \div 2, b \div 2) + (IF (a % 2) + (b % 2) > 0 THEN 1 ELSE 0)

\* comparison of two Words through their implicit conversion to uint32_t
ULess(a, b) ==
  IF (a < 0) = (b < 0) THEN a < b ELSE a >= 0

\* Word(bool)
B2W(b) == IF b THEN 1 ELSE 0

\* Statements in sequence: first is computed in full, then next is applied
\* to its value.  A unit's operate() drives its output signals one after the
\* other, and each signal runs its subscribers before the next is driven.
Then(first, next(_)) == CHOOSE r \in { next(v) : v \in {first} } : TRUE

\* __ProcessorUtils::signExtend<B> applied to a B-bit raw field
signExtend(B, x) ==
  IF x >= 2 ^ (B - 1) THEN x - 2 ^ B ELSE x

\* ------------------------------------------------------- instruction words
RFmtOpcode == 51
aluIFmtOpcode == 19
loadIFmtOpcode == 3
jalrIFmtOpcode == 103
SFmtOpcode == 35
SBFmtOpcode == 99
UFmtOpcode == 55
UJFmtOpcode == 111

IWord(op, rd, f3, rs1, rs2, f7) ==
  [opcode |-> op, rd |-> rd, funct3 |-> f3, rs1 |-> rs1, rs2 |-> rs2, funct7 |-> f7]

NopWord == IWord(0, 0, 0, 0, 0, 0)

\* __ProcessorUtils::isNop
isNop(i) == i = NopWord

\* extractBits(instruction, 20, 31)
Bits20to31(i) == i.funct7 * 32 + i.rs2
\* extractBits(instruction, 12, 31)
Bits12to31(i) == ((i.funct7 * 32 + i.rs2) * 32 + i.rs1) * 8 + i.funct3

\* __ProcessorUtils::fmt; "invalid" stands for the std::invalid_argument throw
fmt(op) ==
  CASE op = RFmtOpcode -> "R"
    [] op \in {aluIFmtOpcode, loadIFmtOpcode, jalrIFmtOpcode} -> "I"
    [] op = SFmtOpcode -> "S"
    [] op = SBFmtOpcode -> "SB"
    [] op = UFmtOpcode -> "U"
    [] op = UJFmtOpcode -> "UJ"
    [] OTHER -> "invalid"

\* _Assembler::makeInstruction + encodeInstruction, per format
\* an immediate is stored in its two's complement field (imm mod 2^bits)
EncR(op, f3, f7, rd, rs1, rs2) == IWord(op, rd, f3, rs1, rs2, f7)
EncI(op, f3, rd, rs1, imm) ==
  IWord(op, rd, f3, rs1, (imm % 4096) % 32, (imm % 4096) \div 32)
EncS(op, f3, rs1, rs2, imm) ==
  IWord(op, (imm % 4096) % 32, f3, rs1, rs2, (imm % 4096) \div 32)
EncU(op, rd, imm) ==
  IWord(op, rd, (imm % 1048576) % 8, ((imm % 1048576) \div 8) % 32,
        ((imm % 1048576) \div 256) % 32, (imm % 1048576) \div 8192)

ADD(rd, rs1, rs2) == EncR(RFmtOpcode, 0, 0, rd, rs1, rs2)
SUB(rd, rs1, rs2) == EncR(RFmtOpcode, 0, 32, rd, rs1, rs2)
ADDI(rd, rs1, imm) == EncI(aluIFmtOpcode, 0, rd, rs1, imm)
LW(rd, imm, rs1) == EncI(loadIFmtOpcode, 2, rd, rs1, imm)
JALR(rd, imm, rs1) == EncI(jalrIFmtOpcode, 0, rd, rs1, imm)
SW(rs2, imm, rs1) == EncS(SFmtOpcode, 2, rs1, rs2, imm)
BEQ(rs1, rs2, imm) == EncS(SBFmtOpcode, 0, rs1, rs2, imm)
JAL(rd, imm) == EncU(UJFmtOpcode, rd, imm)

\* --------------------------------------------------------- signal graph
\* A processor is a record s with one field per InputSignal (named
\* unit_signal), the register file, the data memory and a few observation
\* fields.  OutputSignal::operator<< is unfolded at every use: the value is
\* stored into each subscribed input in the order of synchronizeSignals and
\* the owner's notifyInputChange runs at once (operate for an OutOfSyncUnit,
\* nothing for an InSyncUnit).  Operators are defined consumers first.

\* ALUOp and BranchALUOp enumerators
ALUOp_Add == 0
ALUOp_Sub == 1
ALUOp_Or == 2
ALUOp_And == 3
ALUOp_Sll == 4
ALUOp_Srl == 5
BranchALUOp_Eq == 0
BranchALUOp_Ne == 1
BranchALUOp_Lt == 2
BranchALUOp_Ge == 3

\* int32_t << count and int32_t >> count (arithmetic), one bit at a time
RECURSIVE Sll32(_, _)
Sll32(a, n) == IF n = 0 THEN a ELSE Sll32(Add32(a, a), n - 1)
RECURSIVE Sra32(_, _)
Sra32(a, n) == IF n = 0 THEN a ELSE Sra32(a \div 2, n - 1)

\* the arithmetic of ALUUnit::operate; a shift by a count outside 0..31 is
\* undefined behaviour: the count is then taken modulo 32 as the x86 and
\* RISC-V shifters do (no program explored here shifts)
ALUResult(op, a, b) ==
  CASE op = ALUOp_Add -> Add32(a, b)
    [] op = ALUOp_Sub -> Sub32(a, b)
    [] op = ALUOp_And -> And32(a, b)
    [] op = ALUOp_Or -> Or32(a, b)
    [] op = ALUOp_Sll -> Sll32(a, b % 32)
    [] op = ALUOp_Srl -> Sra32(a, b % 32)
    [] OTHER -> 0

\* pcChooser : Multiplexer; output >> issueUnit.buffer.pcIn
pcChooser_operate(s) ==
  [s EXCEPT !.issueUnit_buffer_pcIn =
     IF s.pcChooser_control = 0 THEN s.pcChooser_input0 ELSE s.pcChooser_input1]

\* IF_ID_flushDecisionMaker wired as if only the data-hazard detector could
\* request the flush
IF_ID_flushDecisionMaker_stallOnly(s) ==
  [s EXCEPT !.IF_ID_shouldFlush = B2W(s.IF_ID_flushDecisionMaker_input0 # 0)]

\* IF_ID_flushDecisionMaker : OrGate; output >> IF_ID.shouldFlush
IF_ID_flushDecisionMaker_operate(s) ==
  [s EXCEPT !.IF_ID_shouldFlush =
     B2W(s.IF_ID_flushDecisionMaker_input0 # 0 \/ s.IF_ID_flushDecisionMaker_input1 # 0)]

\* issueUnitFreezeDecisionMaker wired as if only the memory hazard unit could
\* freeze the issue unit
issueUnitFreezeDecisionMaker_memoryOnly(s) ==
  [s EXCEPT !.issueUnit_buffer_shouldFreeze =
     B2W(s.issueUnitFreezeDecisionMaker_input0 # 0)]

\* issueUnitFreezeDecisionMaker : OrGate; output >> issueUnit.buffer.shouldFreeze
issueUnitFreezeDecisionMaker_operate(s) ==
  [s EXCEPT !.issueUnit_buffer_shouldFreeze =
     B2W(s.issueUnitFreezeDecisionMaker_input0 # 0 \/ s.issueUnitFreezeDecisionMaker_input1 # 0)]

\* branchDecisionMaker : OrGate; output >> pcChooser.control,
\* IF_ID_flushDecisionMaker.input1
branchDecisionMaker_operate(s) ==
  LET v == B2W(s.branchDecisionMaker_input0 # 0 \/ s.branchDecisionMaker_input1 # 0)
      s1 == pcChooser_operate([s EXCEPT !.pcChooser_control = v])
  IN IF_ID_flushDecisionMaker_operate([s1 EXCEPT !.IF_ID_flushDecisionMaker_input1 = v])

\* condBranchDecisionMaker : AndGate; output >> branchDecisionMaker.input0
condBranchDecisionMaker_operate(s) ==
  LET v == B2W(s.condBranchDecisionMaker_input0 # 0 /\ s.condBranchDecisionMaker_input1 # 0)
  IN branchDecisionMaker_operate([s EXCEPT !.branchDecisionMaker_input0 = v])

\* branchDecisionAlu : BranchALUUnit; output >> condBranchDecisionMaker.input1
BranchALUUnit_operate(s) ==
  LET op == s.branchDecisionAlu_branchAluOp
      a == s.branchDecisionAlu_input0
      b == s.branchDecisionAlu_input1
      v == CASE op = BranchALUOp_Eq -> B2W(a = b)
             [] op = BranchALUOp_Ne -> B2W(a # b)
             [] op = BranchALUOp_Lt -> B2W(ULess(a, b))
             [] op = BranchALUOp_Ge -> B2W(~ULess(a, b))
             [] OTHER -> -1
  IN IF v = -1 THEN s
     ELSE condBranchDecisionMaker_operate([s EXCEPT !.condBranchDecisionMaker_input1 = v])

\* branchDecisionAluControl : BranchALUControl;
\* branchAluOp >> branchDecisionAlu.branchAluOp
BranchALUControl_operate(s) ==
  LET f == s.branchDecisionAluControl_func3
      v == CASE f = 0 -> BranchALUOp_Eq
             [] f = 1 -> BranchALUOp_Ne
             [] f = 4 -> BranchALUOp_Lt
             [] f = 5 -> BranchALUOp_Ge
             [] OTHER -> -1
  IN IF v = -1 THEN s
     ELSE BranchALUUnit_operate([s EXCEPT !.branchDecisionAlu_branchAluOp = v])

\* branchAddrAlu : ALUUnit (aluOp input never connected: Add);
\* output >> pcChooser.input1
branchAddrAlu_operate(s) ==
  pcChooser_operate([s EXCEPT !.pcChooser_input1 =
     ALUResult(s.branchAddrAlu_aluOp, s.branchAddrAlu_input0, s.branchAddrAlu_input1)])

\* branchAddrChooser : Multiplexer; output >> branchAddrAlu.input0
branchAddrChooser_operate(s) ==
  branchAddrAlu_operate([s EXCEPT !.branchAddrAlu_input0 =
     IF s.branchAddrChooser_control = 0 THEN s.branchAddrChooser_input0
     ELSE s.branchAddrChooser_input1])

\* pcAdder : ALUUnit (input1 hardcoded to 4); output >> pcChooser.input0
pcAdder_operate(s) ==
  pcChooser_operate([s EXCEPT !.pcChooser_input0 =
     ALUResult(s.pcAdder_aluOp, s.pcAdder_input0, s.pcAdder_input1)])

\* 8-bit address spaces of the instruction memory and of the data memory
addressSpace == 8
MemWords == 2 ^ (addressSpace - 2)

\* the assertions of TimedMainMemory::makeReadGen / makeWriteGen for a
\* block of n words at byte address addr (a Word read as uint32_t)
MainMemoryAccessOk(addr, n) ==
  addr >= 0 /\ addr % (4 * n) = 0 /\ addr + 4 * n <= 2 ^ addressSpace

\* instructionMemory : InstructionMemoryUnit (TimedMainMemory(8, 1));
\* instruction >> IF_ID.instructionIn.  A failed assertion aborts the run:
\* the fault flag is latched and the processor takes no further cycle.
\* The storage of the instruction memory is the loaded program followed by
\* zero words; imem holds the program part.
InstructionMemoryUnit_operate(s) ==
  IF MainMemoryAccessOk(s.instructionMemory_address, 1)
  THEN LET idx == s.instructionMemory_address \div 4
       IN [s EXCEPT !.IF_ID_instructionIn =
             IF idx < Len(s.imem) THEN s.imem[idx + 1] ELSE NopWord]
  ELSE [s EXCEPT !.fault = TRUE]

\* alu : ALUUnit; output >> EX_MEM.aluOutputIn, zero >> EX_MEM.zeroIn
ALUUnit_operate(s) ==
  LET v == ALUResult(s.alu_aluOp, s.alu_input0, s.alu_input1)
  IN [s EXCEPT !.EX_MEM_aluOutputIn = v, !.EX_MEM_zeroIn = B2W(v = 0)]

\* aluControl : ALUControl; aluOp >> alu.aluOp.  The switch drives nothing
\* for a (funct3, funct7) pair it has no case for.
ALUControl_operate(s) ==
  LET c == s.aluControl_ctrlAluOp
      i == s.aluControl_instruction
      v == IF c = 0 THEN ALUOp_Add
           ELSE IF c = 1 THEN ALUOp_Sub
           ELSE CASE i.funct3 = 0 /\ i.funct7 = 0 -> ALUOp_Add
                  [] i.funct3 = 0 /\ i.funct7 = 32 -> ALUOp_Sub
                  [] i.funct3 = 6 -> ALUOp_Or
                  [] i.funct3 = 7 -> ALUOp_And
                  [] i.funct3 = 1 -> ALUOp_Sll
                  [] i.funct3 = 5 -> ALUOp_Srl
                  [] OTHER -> -1
  IN IF c \notin {0, 1, 2} THEN [s EXCEPT !.fault = TRUE]
     ELSE IF v = -1 THEN s
     ELSE ALUUnit_operate([s EXCEPT !.alu_aluOp = v])

\* aluSrc2Chooser : Multiplexer; output >> alu.input1
aluSrc2Chooser_operate(s) ==
  ALUUnit_operate([s EXCEPT !.alu_input1 =
     IF s.aluSrc2Chooser_control = 0 THEN s.aluSrc2Chooser_input0
     ELSE s.aluSrc2Chooser_input1])

\* a register file that stores into x0 like into any other register
writeRegister_storesX0(regs, regNum, value) == [regs EXCEPT ![regNum] = value]

\* RegisterFile<Integer>::writeRegister (register numbers are 5-bit fields)
writeRegister(regs, regNum, value) ==
  IF regNum = 0 THEN regs ELSE [regs EXCEPT ![regNum] = value]

\* RegisterFile<Integer>::readRegister
readRegister(regs, regNum) == regs[regNum]

\* a register file whose reads do not see the write of the same operate()
RegisterFileUnit_operate_readFirst(s) ==
  LET written == IF s.registers_ctrlRegWrite # 0
                 THEN [s EXCEPT !.intRegs = writeRegister(s.intRegs,
                                    s.registers_writeRegister, s.registers_writeData),
                                !.obs_wbWrote = TRUE]
                 ELSE s
      d1 == readRegister(s.intRegs, s.registers_readRegister1)
      d2 == readRegister(s.intRegs, s.registers_readRegister2)
      d1ToChooser(v) ==
        branchAddrChooser_operate([v EXCEPT !.branchAddrChooser_input1 = d1])
      d1ToBranchAlu(v) ==
        [BranchALUUnit_operate([v EXCEPT !.branchDecisionAlu_input0 = d1])
           EXCEPT !.ID_EX_readData1In = d1]
      d2ToBranchAlu(v) ==
        [BranchALUUnit_operate([v EXCEPT !.branchDecisionAlu_input1 = d2])
           EXCEPT !.ID_EX_readData2In = d2]
  IN Then(Then(Then(written, d1ToChooser), d1ToBranchAlu), d2ToBranchAlu)

\* registers : RegisterFileUnit;
\* readData1 >> branchAddrChooser.input1, branchDecisionAlu.input0,
\*              ID_EX.readData1In
\* readData2 >> branchDecisionAlu.input1, ID_EX.readData2In
\* obs_wbWrote records that the write-back port wrote in this cycle.
RegisterFileUnit_operate(s) ==
  LET written == IF s.registers_ctrlRegWrite # 0
                 THEN [s EXCEPT !.intRegs = writeRegister(s.intRegs,
                                    s.registers_writeRegister, s.registers_writeData),
                                !.obs_wbWrote = TRUE]
                 ELSE s
      d1 == readRegister(written.intRegs, s.registers_readRegister1)
      d2(v) == readRegister(v.intRegs, v.registers_readRegister2)
      d1ToChooser(v) ==
        branchAddrChooser_operate([v EXCEPT !.branchAddrChooser_input1 = d1])
      d1ToBranchAlu(v) ==
        [BranchALUUnit_operate([v EXCEPT !.branchDecisionAlu_input0 = d1])
           EXCEPT !.ID_EX_readData1In = d1]
      d2ToBranchAlu(v) ==
        [BranchALUUnit_operate([v EXCEPT !.branchDecisionAlu_input1 = d2(v)])
           EXCEPT !.ID_EX_readData2In = d2(v)]
  IN Then(Then(Then(written, d1ToChooser), d1ToBranchAlu), d2ToBranchAlu)

\* immGen : ImmediateGenerator;
\* immediate >> branchAddrAlu.input1, ID_EX.immediateIn
ImmediateGenerator_operate(s) ==
  LET i == s.immGen_instruction
      f == fmt(i.opcode)
      v == CASE f = "I" -> signExtend(12, Bits20to31(i))
             [] f \in {"S", "SB"} -> signExtend(12, i.funct7 * 32 + i.rd)
             [] f = "U" -> signExtend(20, Bits12to31(i)) * 4096
             [] f = "UJ" -> signExtend(20, Bits12to31(i))
             [] OTHER -> 0
  IN IF isNop(i) THEN s
     ELSE IF f = "invalid" THEN [s EXCEPT !.fault = TRUE]
     ELSE IF f = "R" THEN s
     ELSE [branchAddrAlu_operate([s EXCEPT !.branchAddrAlu_input1 = v])
             EXCEPT !.ID_EX_immediateIn = v]

\* a control unit that never writes the link address
ControlUnit_operate_noLink(s) ==
  LET i == s.control_instruction
      op == i.opcode
      f == fmt(op)
      isR == f = "R"
      isAluI == op = aluIFmtOpcode
      isLoad == op = loadIFmtOpcode
      isStore == f = "S"
      isCondBranch == f = "SB"
      isJalr == op = jalrIFmtOpcode
      isJal == f = "UJ"
      isJump == isJalr \/ isJal
      nop == isNop(i)
      toIDEX(v) ==
        IF nop THEN [v EXCEPT !.ID_EX_ctrlRegWriteIn = 0,
                              !.ID_EX_ctrlMemWriteIn = 0,
                              !.ID_EX_ctrlMemReadIn = 0]
        ELSE [v EXCEPT !.ID_EX_ctrlRegWriteIn = B2W(isR \/ isLoad \/ isAluI),
                       !.ID_EX_ctrlAluSrcIn = B2W(isLoad \/ isStore \/ isAluI),
                       !.ID_EX_ctrlAluOpIn =
                          IF isCondBranch THEN 1 ELSE IF isR \/ isAluI THEN 2 ELSE 0,
                       !.ID_EX_ctrlMemWriteIn = B2W(isStore),
                       !.ID_EX_ctrlMemReadIn = B2W(isLoad),
                       !.ID_EX_ctrlMemToRegIn = B2W(isLoad)]
      ctrlBranch(v) == condBranchDecisionMaker_operate(
              [v EXCEPT !.condBranchDecisionMaker_input0 = B2W(~nop /\ isCondBranch)])
      ctrlUseRegBase(v) == branchAddrChooser_operate(
              [v EXCEPT !.branchAddrChooser_control = B2W(~nop /\ isJalr)])
      ctrlIsJump(v) == branchDecisionMaker_operate(
              [v EXCEPT !.branchDecisionMaker_input1 = B2W(~nop /\ isJump)])
      link(v) == v
  IN IF ~nop /\ f = "invalid" THEN [s EXCEPT !.fault = TRUE]
     ELSE Then(Then(Then(Then(toIDEX(s), ctrlBranch), ctrlUseRegBase), ctrlIsJump), link)

\* control : ControlUnit.  ctrlBranch >> condBranchDecisionMaker.input0,
\* ctrlUseRegBase >> branchAddrChooser.control,
\* ctrlIsJump >> branchDecisionMaker.input1, the other outputs >> ID_EX.
\* The link register is written here, at once.
ControlUnit_operate(s) ==
  LET i == s.control_instruction
      op == i.opcode
      f == fmt(op)
      isR == f = "R"
      isAluI == op = aluIFmtOpcode
      isLoad == op = loadIFmtOpcode
      isStore == f = "S"
      isCondBranch == f = "SB"
      isJalr == op = jalrIFmtOpcode
      isJal == f = "UJ"
      isJump == isJalr \/ isJal
      nop == isNop(i)
      toIDEX(v) ==
        IF nop THEN [v EXCEPT !.ID_EX_ctrlRegWriteIn = 0,
                              !.ID_EX_ctrlMemWriteIn = 0,
                              !.ID_EX_ctrlMemReadIn = 0]
        ELSE [v EXCEPT !.ID_EX_ctrlRegWriteIn = B2W(isR \/ isLoad \/ isAluI),
                       !.ID_EX_ctrlAluSrcIn = B2W(isLoad \/ isStore \/ isAluI),
                       !.ID_EX_ctrlAluOpIn =
                          IF isCondBranch THEN 1 ELSE IF isR \/ isAluI THEN 2 ELSE 0,
                       !.ID_EX_ctrlMemWriteIn = B2W(isStore),
                       !.ID_EX_ctrlMemReadIn = B2W(isLoad),
                       !.ID_EX_ctrlMemToRegIn = B2W(isLoad)]
      ctrlBranch(v) == condBranchDecisionMaker_operate(
              [v EXCEPT !.condBranchDecisionMaker_input0 = B2W(~nop /\ isCondBranch)])
      ctrlUseRegBase(v) == branchAddrChooser_operate(
              [v EXCEPT !.branchAddrChooser_control = B2W(~nop /\ isJalr)])
      ctrlIsJump(v) == branchDecisionMaker_operate(
              [v EXCEPT !.branchDecisionMaker_input1 = B2W(~nop /\ isJump)])
      link(v) ==
        IF ~nop /\ isJump /\ v.control_writeRegister # 0
        THEN [v EXCEPT !.intRegs = writeRegister(v.intRegs,
                           v.control_writeRegister, Add32(v.control_pc, 4)),
                       !.obs_linkWrote = TRUE]
        ELSE v
  IN IF ~nop /\ f = "invalid" THEN [s EXCEPT !.fault = TRUE]
     ELSE Then(Then(Then(Then(toIDEX(s), ctrlBranch), ctrlUseRegBase), ctrlIsJump), link)

\* decoder : DecodeUnit;
\* readRegister1 >> registers.readRegister1, ID_EX.readRegister1In
\* readRegister2 >> registers.readRegister2, ID_EX.readRegister2In
\* writeRegister >> control.writeRegister, ID_EX.writeRegisterIn
\* func3 >> branchDecisionAluControl.func3; func7 has no subscriber
DecodeUnit_operate(s) ==
  LET i == s.decoder_instruction
      readRegister1(v) ==
        [RegisterFileUnit_operate([v EXCEPT !.registers_readRegister1 = i.rs1])
           EXCEPT !.ID_EX_readRegister1In = i.rs1]
      readRegister2(v) ==
        [RegisterFileUnit_operate([v EXCEPT !.registers_readRegister2 = i.rs2])
           EXCEPT !.ID_EX_readRegister2In = i.rs2]
      writeReg(v) ==
        [ControlUnit_operate([v EXCEPT !.control_writeRegister = i.rd])
           EXCEPT !.ID_EX_writeRegisterIn = i.rd]
      func3(v) ==
        BranchALUControl_operate([v EXCEPT !.branchDecisionAluControl_func3 = i.funct3])
  IN Then(Then(Then(readRegister1(s), readRegister2), writeReg), func3)

\* writeBackSrcChooser : Multiplexer; output >> registers.writeData
writeBackSrcChooser_operate(s) ==
  RegisterFileUnit_operate([s EXCEPT !.registers_writeData =
     IF s.writeBackSrcChooser_control = 0 THEN s.writeBackSrcChooser_input0
     ELSE s.writeBackSrcChooser_input1])

\* ------------------------------------------------------ pipeline registers
\* The OutputSignal values of the pipeline registers and of the issue unit
\* are kept in the records IF_ID_out, ID_EX_out, EX_MEM_out, MEM_WB_out,
\* MEM_WB_buffer_out and in issueUnit_*_pcOut.

\* Flushable::zeroOnFlush
zeroOnFlush(shouldFlush, val) == IF shouldFlush # 0 THEN 0 ELSE val

\* IFIDRegisters::operate
\* instructionOut >> decoder.instruction, control.instruction,
\*                   immGen.instruction, ID_EX.instructionIn
\* pcOut >> control.pc, branchAddrChooser.input0, ID_EX.pcIn
IFIDRegisters_operate(s) ==
  IF s.IF_ID_shouldFreeze # 0 THEN s
  ELSE
    LET i == IF s.IF_ID_shouldFlush # 0 THEN NopWord ELSE s.IF_ID_instructionIn
        pc == s.IF_ID_pcIn
        toDecoder(v) == DecodeUnit_operate([v EXCEPT !.decoder_instruction = i])
        toControl(v) == ControlUnit_operate([v EXCEPT !.control_instruction = i])
        toImmGen(v) == ImmediateGenerator_operate([v EXCEPT !.immGen_instruction = i])
        toIDEX(v) == [v EXCEPT !.ID_EX_instructionIn = i,
                               !.IF_ID_out = [instruction |-> i, pc |-> pc]]
        pcToControl(v) == ControlUnit_operate([v EXCEPT !.control_pc = pc])
        pcToChooser(v) ==
          [branchAddrChooser_operate([v EXCEPT !.branchAddrChooser_input0 = pc])
             EXCEPT !.ID_EX_pcIn = pc]
    IN Then(Then(Then(Then(Then(Then(
         [s EXCEPT !.IF_ID_out = [instruction |-> i, pc |-> @.pc]],
         toDecoder), toControl), toImmGen), toIDEX), pcToControl), pcToChooser)

\* IDEXRegisters::operate (ID_EX.shouldFlush has no driver and stays 0)
\* readData1Out >> alu.input0
\* readData2Out >> aluSrc2Chooser.input0, EX_MEM.readData2In
\* immediateOut >> aluSrc2Chooser.input1
\* instructionOut >> aluControl.instruction, EX_MEM.instructionIn
\* ctrlAluSrcOut >> aluSrc2Chooser.control; ctrlAluOpOut >> aluControl.ctrlAluOp
\* the remaining outputs >> EX_MEM
IDEXRegisters_operate(s) ==
  IF s.ID_EX_shouldFreeze # 0 THEN s
  ELSE
    LET fl == s.ID_EX_shouldFlush
        readData1(v) == ALUUnit_operate([v EXCEPT !.alu_input0 = s.ID_EX_readData1In])
        readData2(v) ==
          [aluSrc2Chooser_operate(
             [v EXCEPT !.aluSrc2Chooser_input0 = s.ID_EX_readData2In])
             EXCEPT !.EX_MEM_readData2In = s.ID_EX_readData2In]
        immediate(v) == aluSrc2Chooser_operate(
             [v EXCEPT !.aluSrc2Chooser_input1 = s.ID_EX_immediateIn])
        instruction(v) ==
          [ALUControl_operate(
             [v EXCEPT !.aluControl_instruction = s.ID_EX_instructionIn])
             EXCEPT !.EX_MEM_instructionIn = s.ID_EX_instructionIn]
        ctrlAluSrc(v) == aluSrc2Chooser_operate(
             [v EXCEPT !.aluSrc2Chooser_control = s.ID_EX_ctrlAluSrcIn])
        ctrlAluOp(v) == ALUControl_operate(
             [v EXCEPT !.aluControl_ctrlAluOp = s.ID_EX_ctrlAluOpIn])
        toEXMEM(v) == [v EXCEPT
          !.EX_MEM_ctrlMemWriteIn = zeroOnFlush(fl, s.ID_EX_ctrlMemWriteIn),
          !.EX_MEM_ctrlMemReadIn = zeroOnFlush(fl, s.ID_EX_ctrlMemReadIn),
          !.EX_MEM_ctrlMemToRegIn = s.ID_EX_ctrlMemToRegIn,
          !.EX_MEM_ctrlRegWriteIn = zeroOnFlush(fl, s.ID_EX_ctrlRegWriteIn),
          !.EX_MEM_writeRegisterIn = s.ID_EX_writeRegisterIn,
          !.EX_MEM_pcIn = s.ID_EX_pcIn,
          !.ID_EX_out = [readData1 |-> s.ID_EX_readData1In,
                         readData2 |-> s.ID_EX_readData2In,
                         immediate |-> s.ID_EX_immediateIn,
                         instruction |-> s.ID_EX_instructionIn,
                         ctrlAluSrc |-> s.ID_EX_ctrlAluSrcIn,
                         ctrlAluOp |-> s.ID_EX_ctrlAluOpIn,
                         ctrlMemWrite |-> zeroOnFlush(fl, s.ID_EX_ctrlMemWriteIn),
                         ctrlMemRead |-> zeroOnFlush(fl, s.ID_EX_ctrlMemReadIn),
                         ctrlMemToReg |-> s.ID_EX_ctrlMemToRegIn,
                         ctrlRegWrite |-> zeroOnFlush(fl, s.ID_EX_ctrlRegWriteIn),
                         writeRegister |-> s.ID_EX_writeRegisterIn,
                         readRegister1 |-> s.ID_EX_readRegister1In,
                         readRegister2 |-> s.ID_EX_readRegister2In,
                         pc |-> s.ID_EX_pcIn]]
    IN Then(Then(Then(Then(Then(Then(readData1(s),
         readData2), immediate), instruction), ctrlAluSrc), ctrlAluOp), toEXMEM)

\* EXMEMRegisters::operate (EX_MEM.shouldFlush has no driver and stays 0);
\* every subscriber is an InSyncUnit (dataMemory, MEM_WB.buffer)
EXMEMRegisters_operate(s) ==
  IF s.EX_MEM_shouldFreeze # 0 THEN s
  ELSE
    LET fl == s.EX_MEM_shouldFlush
        o == [zero |-> s.EX_MEM_zeroIn,
              aluOutput |-> s.EX_MEM_aluOutputIn,
              readData2 |-> s.EX_MEM_readData2In,
              ctrlMemWrite |-> zeroOnFlush(fl, s.EX_MEM_ctrlMemWriteIn),
              ctrlMemRead |-> zeroOnFlush(fl, s.EX_MEM_ctrlMemReadIn),
              ctrlMemToReg |-> s.EX_MEM_ctrlMemToRegIn,
              ctrlRegWrite |-> zeroOnFlush(fl, s.EX_MEM_ctrlRegWriteIn),
              writeRegister |-> s.EX_MEM_writeRegisterIn,
              pc |-> s.EX_MEM_pcIn,
              instruction |-> s.EX_MEM_instructionIn]
    IN [s EXCEPT !.EX_MEM_out = o,
                 !.dataMemory_address = o.aluOutput,
                 !.dataMemory_writeData = o.readData2,
                 !.dataMemory_ctrlMemWrite = o.ctrlMemWrite,
                 !.dataMemory_ctrlMemRead = o.ctrlMemRead,
                 !.MEM_WB_buffer_aluOutputIn = o.aluOutput,
                 !.MEM_WB_buffer_writeRegisterIn = o.writeRegister,
                 !.MEM_WB_buffer_ctrlMemToRegIn = o.ctrlMemToReg,
                 !.MEM_WB_buffer_ctrlRegWriteIn = o.ctrlRegWrite,
                 !.MEM_WB_buffer_pcIn = o.pc,
                 !.MEM_WB_buffer_instructionIn = o.instruction]

\* MEMWBRegisters::operate of MEM_WB.buffer; outputs >> MEM_WB.out inputs
MEMWBRegisters_buffer_operate(s) ==
  [s EXCEPT !.MEM_WB_buffer_out =
     [readMemoryData |-> s.MEM_WB_buffer_readMemoryDataIn,
      aluOutput |-> s.MEM_WB_buffer_aluOutputIn,
      ctrlMemToReg |-> s.MEM_WB_buffer_ctrlMemToRegIn,
      writeRegister |-> s.MEM_WB_buffer_writeRegisterIn,
      ctrlRegWrite |-> zeroOnFlush(s.MEM_WB_buffer_shouldFlush,
                                   s.MEM_WB_buffer_ctrlRegWriteIn),
      pc |-> s.MEM_WB_buffer_pcIn,
      instruction |-> s.MEM_WB_buffer_instructionIn]]

\* MEMWBRegisters::operate of MEM_WB.out (its inputs are the outputs of
\* MEM_WB.buffer)
\* ctrlRegWriteOut >> registers.ctrlRegWrite
\* readMemoryDataOut >> writeBackSrcChooser.input1
\* aluOutputOut >> writeBackSrcChooser.input0
\* ctrlMemToRegOut >> writeBackSrcChooser.control
\* writeRegisterOut >> registers.writeRegister
MEMWBRegisters_out_operate(s) ==
  LET b == s.MEM_WB_buffer_out
      rw == zeroOnFlush(s.MEM_WB_out_shouldFlush, b.ctrlRegWrite)
      readMemoryData(v) == writeBackSrcChooser_operate(
              [v EXCEPT !.writeBackSrcChooser_input1 = b.readMemoryData])
      aluOutput(v) == writeBackSrcChooser_operate(
              [v EXCEPT !.writeBackSrcChooser_input0 = b.aluOutput])
      ctrlMemToReg(v) == writeBackSrcChooser_operate(
              [v EXCEPT !.writeBackSrcChooser_control = b.ctrlMemToReg])
      writeReg(v) ==
        RegisterFileUnit_operate([v EXCEPT !.registers_writeRegister = b.writeRegister])
      ctrlRegWrite(v) ==
        [RegisterFileUnit_operate([v EXCEPT !.registers_ctrlRegWrite = rw])
           EXCEPT !.MEM_WB_out = [b EXCEPT !.ctrlRegWrite = rw]]
  IN Then(Then(Then(Then(Then(
       RegisterFileUnit_operate([s EXCEPT !.registers_ctrlRegWrite = 0]),
       readMemoryData), aluOutput), ctrlMemToReg), writeReg), ctrlRegWrite)

\* InstructionIssueUnit::operate of issueUnit.buffer; pcOut >> issueUnit.out.pcIn
InstructionIssueUnit_buffer_operate(s) ==
  IF s.issueUnit_buffer_shouldFreeze # 0 THEN s
  ELSE [s EXCEPT !.issueUnit_buffer_pcOut = s.issueUnit_buffer_pcIn]

\* InstructionIssueUnit::operate of issueUnit.out;
\* pcOut >> pcAdder.input0, instructionMemory.address, IF_ID.pcIn
InstructionIssueUnit_out_operate(s) ==
  IF s.issueUnit_out_shouldFreeze # 0 THEN s
  ELSE
    LET pc == s.issueUnit_buffer_pcOut
        toMemory(v) ==
          [InstructionMemoryUnit_operate([v EXCEPT !.instructionMemory_address = pc])
             EXCEPT !.IF_ID_pcIn = pc]
    IN Then(pcAdder_operate([s EXCEPT !.issueUnit_out_pcOut = pc, !.pcAdder_input0 = pc]),
            toMemory)

\* ConcreteBufferedUnit<MEMWBRegisters>::bufferInputs
BufferedMEMWBRegisters_bufferInputs(s) ==
  MEMWBRegisters_buffer_operate(
    [s EXCEPT !.MEM_WB_out_shouldFlush = s.MEM_WB_buffer_shouldFlush])

\* ConcreteBufferedUnit<InstructionIssueUnit>::bufferInputs
BufferedInstructionIssueUnit_bufferInputs(s) ==
  InstructionIssueUnit_buffer_operate(
    [s EXCEPT !.issueUnit_out_shouldFreeze = s.issueUnit_buffer_shouldFreeze])

\* ------------------------------------------------------------ timed memory
\* A TimedMainMemory is the record
\*   [state, curAddr, latency, storage, gen]
\* where gen = [addr, n, block, cycle] is the suspended generator (readGen or
\* writeGen): its arguments and the number of times it has been resumed.
\* An operation returns [mem, done, val, fault]: done/val are the optional
\* result (val = << >> when nothing is returned), fault a failed assertion.

MemRet(m, d, v, f) == [mem |-> m, done |-> d, val |-> v, fault |-> f]

\* Block::setSubblock on the word storage
setSubblock(words, from, block) ==
  [k \in DOMAIN words |->
     IF k >= from /\ k < from + Len(block) THEN block[k - from + 1] ELSE words[k]]

\* Block::getSubblock
getSubblock(words, from, len) == [k \in 1..len |-> words[from + k - 1]]

\* one resumption of the generator of TimedMainMemory::makeReadGen
TimedMainMemory_makeReadGen(m) ==
  LET g == m.gen
      m1 == [m EXCEPT !.gen.cycle = @ + 1]
  IN IF g.cycle = 0 /\ ~MainMemoryAccessOk(g.addr, g.n) THEN MemRet(m, FALSE, << >>, TRUE)
     ELSE IF g.cycle + 1 < m.latency THEN MemRet(m1, FALSE, << >>, FALSE)
     ELSE MemRet(m1, TRUE, getSubblock(m.storage, g.addr \div 4, g.n), FALSE)

\* a write generator that stores the block at every resumption
TimedMainMemory_makeWriteGen_storesEarly(m) ==
  IF m.gen.cycle = 0 /\ ~MainMemoryAccessOk(m.gen.addr, m.gen.n)
  THEN MemRet(m, FALSE, << >>, TRUE)
  ELSE MemRet([m EXCEPT !.gen.cycle = @ + 1,
                        !.storage = setSubblock(@, m.gen.addr \div 4, m.gen.block)],
              m.gen.cycle + 1 >= m.latency, << >>, FALSE)

\* one resumption of the generator of TimedMainMemory::makeWriteGen
TimedMainMemory_makeWriteGen(m) ==
  LET g == m.gen
      m1 == [m EXCEPT !.gen.cycle = @ + 1]
  IN IF g.cycle = 0 /\ ~MainMemoryAccessOk(g.addr, g.n) THEN MemRet(m, FALSE, << >>, TRUE)
     ELSE IF g.cycle + 1 < m.latency THEN MemRet(m1, FALSE, << >>, FALSE)
     ELSE MemRet([m1 EXCEPT !.storage = setSubblock(@, g.addr \div 4, g.block)],
                 TRUE, << >>, FALSE)

\* a readBlock that does not look at the state: it resumes the generator in
\* flight whatever its kind
TimedMainMemory_readBlock_noStateCheck(m, addr, blockSize) ==
  IF m.state # "Ready" /\ m.curAddr # addr
  THEN MemRet(m, FALSE, << >>, TRUE)
  ELSE
    LET m1 == IF m.state = "Ready"
              THEN [m EXCEPT !.state = "Reading",
                             !.gen = [addr |-> addr, n |-> blockSize,
                                      block |-> << >>, cycle |-> 0]]
              ELSE m
        r == TimedMainMemory_makeReadGen([m1 EXCEPT !.curAddr = addr])
    IN IF r.done THEN [r EXCEPT !.mem.state = "Ready"] ELSE r

\* TimedMemory::readBlock on a main memory
TimedMainMemory_readBlock(m, addr, blockSize) ==
  IF m.state = "Writing" \/ (m.state # "Ready" /\ m.curAddr # addr)
  THEN MemRet(m, FALSE, << >>, TRUE)
  ELSE
    LET m1 == IF m.state = "Ready"
              THEN [m EXCEPT !.state = "Reading",
                             !.gen = [addr |-> addr, n |-> blockSize,
                                      block |-> << >>, cycle |-> 0]]
              ELSE m
        r == TimedMainMemory_makeReadGen([m1 EXCEPT !.curAddr = addr])
    IN IF r.done THEN [r EXCEPT !.mem.state = "Ready"] ELSE r

\* a writeBlock that leaves the state Writing when the write completes
TimedMainMemory_writeBlock_staysWriting(m, addr, block) ==
  IF m.state = "Reading" \/ (m.state # "Ready" /\ m.curAddr # addr)
  THEN MemRet(m, FALSE, << >>, TRUE)
  ELSE
    LET m1 == IF m.state = "Ready"
              THEN [m EXCEPT !.state = "Writing",
                             !.gen = [addr |-> addr, n |-> Len(block),
                                      block |-> block, cycle |-> 0]]
              ELSE m
    IN TimedMainMemory_makeWriteGen([m1 EXCEPT !.curAddr = addr])

\* TimedMemory::writeBlock on a main memory
TimedMainMemory_writeBlock(m, addr, block) ==
  IF m.state = "Reading" \/ (m.state # "Ready" /\ m.curAddr # addr)
  THEN MemRet(m, FALSE, << >>, TRUE)
  ELSE
    LET m1 == IF m.state = "Ready"
              THEN [m EXCEPT !.state = "Writing",
                             !.gen = [addr |-> addr, n |-> Len(block),
                                      block |-> block, cycle |-> 0]]
              ELSE m
        r == TimedMainMemory_makeWriteGen([m1 EXCEPT !.curAddr = addr])
    IN IF r.done THEN [r EXCEPT !.mem.state = "Ready"] ELSE r

\* TimedMainMemory::TimedMainMemory
TimedMainMemory(latency, storage) ==
  [state |-> "Ready", curAddr |-> 0, latency |-> latency, storage |-> storage,
   gen |-> [addr |-> 0, n |-> 0, block |-> << >>, cycle |-> 0]]

\* ------------------------------------------------------------- timed cache
\* A TimedCache is the record of its fields, of the state and curAddr it
\* inherits from TimedMemory, of its two generators, and of the lower memory
\* it points to (a TimedMainMemory).  A Block held by the cache is the
\* sequence of its words.  An optional index is << >> or <<index>>.
\* A read generator is [pc, cycle, addr, n, entryIdx, readResult]; a write
\* generator is [pc, cycle, addr, block, readGen]; pc names the co_yield at
\* which the coroutine is suspended.

\* nbytes
nbytes(nwords) == nwords * 4

\* isAligned
isAligned(addr, nwords) == addr % nbytes(nwords) = 0

\* std::countr_zero of a positive number
countr_zero(n) == CHOOSE k \in 0..31 : n % (2 ^ k) = 0 /\ n % (2 ^ (k + 1)) # 0

\* Block::getSubblock of a Block held as a sequence
Block_getSubblock(block, from, len) == [k \in 1..len |-> block[from + k]]

\* Block::setSubblock of a Block held as a sequence
Block_setSubblock(block, from, sub) ==
  [k \in 1..Len(block) |->
     IF k - 1 >= from /\ k - 1 < from + Len(sub) THEN sub[k - from] ELSE block[k]]

\* TimedCache::blockBitCount
blockBitCount(c) == countr_zero(c.blockSize)

\* TimedCache::setBitCount
setBitCount(c) == countr_zero(c.setSize)

\* TimedCache::indexBitCount
indexBitCount(c) == countr_zero(c.cacheSize) - setBitCount(c)

\* TimedCache::setCount
setCount(c) == c.cacheSize \div c.setSize

\* TimedCache::tagBits
tagBits(c, addr) == addr \div (2 ^ (indexBitCount(c) + blockBitCount(c) + 2))

\* TimedCache::indexBits
indexBits(c, addr) == (addr \div (2 ^ (blockBitCount(c) + 2))) % (2 ^ indexBitCount(c))

\* the entry indexes of set setIdx
SetEntries(c, setIdx) == (setIdx * c.setSize)..(setIdx * c.setSize + c.setSize - 1)

\* the least element of a non-empty set of numbers
Least(S) == CHOOSE x \in S : \A y \in S : x <= y

\* a lookup that compares the tag of the first entry of the set only
findCacheEntry_firstSlotOnly(c, addr) ==
  LET i == indexBits(c, addr) * c.setSize
  IN IF c.entries[i].valid /\ c.entries[i].tag = tagBits(c, addr)
     THEN <<i>> ELSE << >>

\* TimedCache::findCacheEntry
findCacheEntry(c, addr) ==
  LET found == { i \in SetEntries(c, indexBits(c, addr)) :
                   c.entries[i].valid /\ c.entries[i].tag = tagBits(c, addr) }
  IN IF found = {} THEN << >> ELSE <<Least(found)>>

\* the loop of TimedCache::updateLRUInfo under ApproximateLRU
RECURSIVE updateLRUBits(_, _, _, _)
updateLRUBits(bits, localBlockIdx, bit, lruBit) ==
  IF bit < 0 THEN bits
  ELSE LET b == (localBlockIdx \div (2 ^ bit)) % 2
       IN updateLRUBits([bits EXCEPT ![lruBit] = (b = 1)], localBlockIdx,
                        bit - 1, 2 * lruBit + 1 + b)

\* an update that stamps the entry under PreciseLRU and leaves the tree bits
\* of ApproximateLRU as they were
updateLRUInfo_stampOnly(c, entryIdx, addr, localBlockIdx) ==
  IF c.policy = "PreciseLRU"
  THEN [c EXCEPT !.entries[entryIdx].lastAccessedTime = c.totalAccessCount,
                 !.totalAccessCount = @ + 1]
  ELSE c

\* TimedCache::updateLRUInfo
updateLRUInfo(c, entryIdx, addr, localBlockIdx) ==
  IF c.policy = "PreciseLRU"
  THEN [c EXCEPT !.entries[entryIdx].lastAccessedTime = c.totalAccessCount,
                 !.totalAccessCount = @ + 1]
  ELSE IF c.policy = "ApproximateLRU"
  THEN [c EXCEPT !.lruBits[indexBits(c, addr)] =
          updateLRUBits(@, localBlockIdx, setBitCount(c) - 1, 0)]
  ELSE c

\* the loop of selectEvictionIndex under ApproximateLRU
RECURSIVE lruWalk(_, _, _, _, _)
lruWalk(bits, nbits, bit, lruBit, lruEntryIdx) ==
  IF bit >= nbits THEN lruEntryIdx
  ELSE LET choice == IF bits[lruBit] THEN 0 ELSE 1
       IN lruWalk(bits, nbits, bit + 1, 2 * lruBit + 1 + choice,
                  2 * lruEntryIdx + choice)

\* a choice of the victim that always takes the first entry of the set
selectEvictionIndex_firstOfSet(c, setIdx, rnd) == setIdx * c.setSize

\* selectEvictionIndex of TimedCache::makeReadGen; rnd is the value of
\* rand() % setSize
selectEvictionIndex(c, setIdx, rnd) ==
  LET startingEntryIdx == setIdx * c.setSize
      set == SetEntries(c, setIdx)
  IN IF c.policy = "PreciseLRU"
     THEN Least({ i \in set : \A j \in set :
                    c.entries[i].lastAccessedTime <= c.entries[j].lastAccessedTime })
     ELSE IF c.policy = "ApproximateLRU"
     THEN lruWalk(c.lruBits[setIdx], setBitCount(c), 0, 0, 0) + startingEntryIdx
     ELSE startingEntryIdx + rnd

\* the write-back address made of the index bits of the evicted entry alone
evictedAddr_indexOnly(c, evictedIdx) ==
  (evictedIdx \div c.setSize) * (2 ^ (blockBitCount(c) + 2))

\* the address TimedCache::makeReadGen writes an evicted entry back to
evictedAddr(c, evictedIdx) ==
  LET indexOffset == blockBitCount(c) + 2
      tagOffset == indexOffset + indexBitCount(c)
  IN c.entries[evictedIdx].tag * (2 ^ tagOffset)
       + (evictedIdx \div c.setSize) * (2 ^ indexOffset)

\* what a resumption of a cache generator hands back: the cache, the
\* generator, and the yielded value (done/val) or a failed assertion
GenRet(c, g, d, v, f) == [c |-> c, g |-> g, done |-> d, val |-> v, fault |-> f]

\* a delivery that returns the first words of the line, whatever the offset
\* of the address in the line
ReadDeliver_lineStart(c, g, entryIdx) ==
  GenRet(updateLRUInfo(c, entryIdx, g.addr, entryIdx % c.setSize),
         [g EXCEPT !.pc = "done", !.entryIdx = <<entryIdx>>],
         TRUE, Block_getSubblock(c.entries[entryIdx].block, 0, g.n), FALSE)

\* makeReadGen, the last co_yield: the requested sub-block of the entry
ReadDeliver(c, g, entryIdx) ==
  LET blockOffset == g.addr % nbytes(c.blockSize)
      requestedBlock == Block_getSubblock(c.entries[entryIdx].block,
                                          blockOffset \div 4, g.n)
      c1 == updateLRUInfo(c, entryIdx, g.addr, entryIdx % c.setSize)
  IN GenRet(c1, [g EXCEPT !.pc = "done", !.entryIdx = <<entryIdx>>],
            TRUE, requestedBlock, FALSE)

\* a loop body that forgets the line the lower memory returns
ReadFill_dropsResult(c, g) ==
  LET startingAddr == (g.addr \div nbytes(c.blockSize)) * nbytes(c.blockSize)
      yield(r) ==
        IF r.fault THEN GenRet(c, g, FALSE, << >>, TRUE)
        ELSE GenRet([c EXCEPT !.lowerMem = r.mem],
                    [g EXCEPT !.pc = "fill", !.readResult = << >>],
                    FALSE, << >>, FALSE)
  IN Then(TimedMainMemory_readBlock(c.lowerMem, startingAddr, c.blockSize), yield)

\* makeReadGen, the body of the do-while loop: one readBlock of the whole
\* line on the lower memory, followed by co_yield std::nullopt
ReadFill(c, g) ==
  LET startingAddr == (g.addr \div nbytes(c.blockSize)) * nbytes(c.blockSize)
      yield(r) ==
        IF r.fault THEN GenRet(c, g, FALSE, << >>, TRUE)
        ELSE GenRet([c EXCEPT !.lowerMem = r.mem],
                    [g EXCEPT !.pc = "fill",
                              !.readResult = IF r.done THEN <<r.val>> ELSE << >>],
                    FALSE, << >>, FALSE)
  IN Then(TimedMainMemory_readBlock(c.lowerMem, startingAddr, c.blockSize), yield)

\* makeReadGen, after the do-while loop: the line is stored in the entry
ReadInstall(c, g) ==
  LET entryIdx == g.entryIdx[1]
      c1 == [c EXCEPT !.entries[entryIdx] =
               [@ EXCEPT !.valid = TRUE, !.dirty = FALSE,
                         !.tag = tagBits(c, g.addr), !.block = g.readResult[1]]]
  IN ReadDeliver(c1, g, entryIdx)

\* makeReadGen, the write-back loop: one writeBlock of the evicted entry on
\* the lower memory; co_yield std::nullopt while it returns false
ReadEvict(c, g) ==
  LET evictedIdx == g.entryIdx[1]
      written(r) ==
        IF r.fault THEN GenRet(c, g, FALSE, << >>, TRUE)
        ELSE IF ~r.done
        THEN GenRet([c EXCEPT !.lowerMem = r.mem], [g EXCEPT !.pc = "evict"],
                    FALSE, << >>, FALSE)
        ELSE ReadFill([c EXCEPT !.lowerMem = r.mem], g)
  IN Then(TimedMainMemory_writeBlock(c.lowerMem, evictedAddr(c, evictedIdx),
                                     c.entries[evictedIdx].block),
          written)

\* a lookup that takes the slot the replacement policy names even when the
\* set has an invalid slot
ReadLookup_policyOnly(c, g, rnd) ==
  LET setIdx == indexBits(c, g.addr)
      entryIdx == findCacheEntry(c, g.addr)
      evictedIdx == selectEvictionIndex(c, setIdx, rnd)
  IN IF entryIdx # << >> THEN ReadDeliver(c, g, entryIdx[1])
     ELSE IF c.scheme = "WriteBack" /\ c.entries[evictedIdx].dirty
     THEN ReadEvict(c, [g EXCEPT !.entryIdx = <<evictedIdx>>])
     ELSE ReadFill(c, [g EXCEPT !.entryIdx = <<evictedIdx>>])

\* makeReadGen, from the end of the latency wait to the next co_yield
ReadLookup(c, g, rnd) ==
  LET setIdx == indexBits(c, g.addr)
      entryIdx == findCacheEntry(c, g.addr)
      free == { i \in SetEntries(c, setIdx) : ~c.entries[i].valid }
      evictedIdx == selectEvictionIndex(c, setIdx, rnd)
  IN IF entryIdx # << >> THEN ReadDeliver(c, g, entryIdx[1])
     ELSE IF free # {} THEN ReadFill(c, [g EXCEPT !.entryIdx = <<Least(free)>>])
     ELSE IF c.scheme = "WriteBack" /\ c.entries[evictedIdx].dirty
     THEN ReadEvict(c, [g EXCEPT !.entryIdx = <<evictedIdx>>])
     ELSE ReadFill(c, [g EXCEPT !.entryIdx = <<evictedIdx>>])

\* one resumption of a generator made by TimedCache::makeReadGen
TimedCache_makeReadGen(c, g, rnd) ==
  IF g.pc = "start" THEN
    IF g.cycle = 0 /\ ~(c.blockSize % g.n = 0 /\ isAligned(g.addr, g.n))
    THEN GenRet(c, g, FALSE, << >>, TRUE)
    ELSE IF g.cycle + 1 < c.latency
    THEN GenRet(c, [g EXCEPT !.cycle = @ + 1], FALSE, << >>, FALSE)
    ELSE ReadLookup(c, g, rnd)
  ELSE IF g.pc = "evict" THEN ReadEvict(c, g)
  ELSE IF g.readResult = << >> THEN ReadFill(c, g)
  ELSE ReadInstall(c, g)

\* a generator made by makeReadGen(addr, readBlockSize), not yet resumed
NewReadGen(addr, readBlockSize) ==
  [pc |-> "start", cycle |-> 0, addr |-> addr, n |-> readBlockSize,
   entryIdx |-> << >>, readResult |-> << >>]

\* a write-through step that reports the write done without calling the
\* lower memory
WriteThrough_cacheOnly(c, g) ==
  GenRet(c, [g EXCEPT !.pc = "done"], TRUE, << >>, FALSE)

\* makeWriteGen, the write-through loop: one writeBlock on the lower memory;
\* co_yield false while it returns false, then co_yield true
WriteThrough(c, g) ==
  LET written(r) ==
        IF r.fault THEN GenRet(c, g, FALSE, << >>, TRUE)
        ELSE IF ~r.done
        THEN GenRet([c EXCEPT !.lowerMem = r.mem], [g EXCEPT !.pc = "through"],
                    FALSE, << >>, FALSE)
        ELSE GenRet([c EXCEPT !.lowerMem = r.mem], [g EXCEPT !.pc = "done"],
                    TRUE, << >>, FALSE)
  IN Then(TimedMainMemory_writeBlock(c.lowerMem, g.addr, g.block), written)

\* the update of the cache on a hit, followed by the write to the lower
\* memory under every write scheme
WritePatch_alwaysThrough(c, g, entryIdx) ==
  WriteThrough(
    IF entryIdx = << >> THEN c
    ELSE updateLRUInfo(
           [c EXCEPT !.entries[entryIdx[1]] =
              [@ EXCEPT !.block = Block_setSubblock(@,
                                    (g.addr % nbytes(c.blockSize)) \div 4, g.block),
                        !.dirty = TRUE]],
           entryIdx[1], g.addr, entryIdx[1] % c.setSize),
    g)

\* an update of the cache on a hit that leaves the dirty bit as it was
WritePatch_leavesClean(c, g, entryIdx) ==
  LET blockOffset == g.addr % nbytes(c.blockSize)
      c1 == IF entryIdx = << >> THEN c
            ELSE updateLRUInfo(
                   [c EXCEPT !.entries[entryIdx[1]] =
                      [@ EXCEPT !.block = Block_setSubblock(@, blockOffset \div 4, g.block)]],
                   entryIdx[1], g.addr, entryIdx[1] % c.setSize)
  IN IF c.scheme = "WriteThrough" THEN WriteThrough(c1, g)
     ELSE GenRet(c1, [g EXCEPT !.pc = "done"], TRUE, << >>, FALSE)

\* an update of the cache on a hit that stores the block at the start of
\* the line, whatever the offset of the address in the line
WritePatch_lineStart(c, g, entryIdx) ==
  LET c1 == IF entryIdx = << >> THEN c
            ELSE updateLRUInfo(
                   [c EXCEPT !.entries[entryIdx[1]] =
                      [@ EXCEPT !.block = Block_setSubblock(@, 0, g.block),
                                !.dirty = TRUE]],
                   entryIdx[1], g.addr, entryIdx[1] % c.setSize)
  IN IF c.scheme = "WriteThrough" THEN WriteThrough(c1, g)
     ELSE GenRet(c1, [g EXCEPT !.pc = "done"], TRUE, << >>, FALSE)

\* makeWriteGen, the update of the cache on a hit
WritePatch(c, g, entryIdx) ==
  LET blockOffset == g.addr % nbytes(c.blockSize)
      c1 == IF entryIdx = << >> THEN c
            ELSE updateLRUInfo(
                   [c EXCEPT !.entries[entryIdx[1]] =
                      [@ EXCEPT !.block = Block_setSubblock(@, blockOffset \div 4, g.block),
                                !.dirty = TRUE]],
                   entryIdx[1], g.addr, entryIdx[1] % c.setSize)
  IN IF c.scheme = "WriteThrough" THEN WriteThrough(c1, g)
     ELSE GenRet(c1, [g EXCEPT !.pc = "done"], TRUE, << >>, FALSE)

\* makeWriteGen, the loop on the read generator of a write-back miss
WriteInner(c, g, rnd) ==
  LET resumed(r) ==
        IF r.fault THEN GenRet(c, g, FALSE, << >>, TRUE)
        ELSE IF ~r.done
        THEN GenRet(r.c, [g EXCEPT !.pc = "inner", !.readGen = r.g],
                    FALSE, << >>, FALSE)
        ELSE IF findCacheEntry(r.c, g.addr) = << >>
        THEN GenRet(r.c, [g EXCEPT !.pc = "inner", !.readGen = r.g],
                    FALSE, << >>, TRUE)
        ELSE WritePatch(r.c, [g EXCEPT !.pc = "inner", !.readGen = r.g],
                        findCacheEntry(r.c, g.addr))
  IN Then(TimedCache_makeReadGen(c, g.readGen, rnd), resumed)

\* one resumption of a generator made by TimedCache::makeWriteGen
TimedCache_makeWriteGen(c, g, rnd) ==
  IF g.pc = "start" THEN
    IF g.cycle = 0 /\ ~(c.blockSize % Len(g.block) = 0 /\ isAligned(g.addr, Len(g.block)))
    THEN GenRet(c, g, FALSE, << >>, TRUE)
    ELSE IF g.cycle + 1 < c.latency
    THEN GenRet(c, [g EXCEPT !.cycle = @ + 1], FALSE, << >>, FALSE)
    ELSE IF c.scheme = "WriteBack" /\ findCacheEntry(c, g.addr) = << >>
    THEN WriteInner(c, [g EXCEPT !.readGen = NewReadGen(g.addr, c.blockSize)], rnd)
    ELSE WritePatch(c, g, findCacheEntry(c, g.addr))
  ELSE IF g.pc = "inner" THEN WriteInner(c, g, rnd)
  ELSE WriteThrough(c, g)

\* a generator made by makeWriteGen(addr, block), not yet resumed
NewWriteGen(addr, block) ==
  [pc |-> "start", cycle |-> 0, addr |-> addr, block |-> block,
   readGen |-> NewReadGen(0, 0)]

\* TimedMemory::readBlock on a cache
TimedCache_readBlock(c, addr, blockSize, rnd) ==
  IF c.state = "Writing" \/ (c.state # "Ready" /\ c.curAddr # addr)
  THEN GenRet(c, c.readGen, FALSE, << >>, TRUE)
  ELSE
    LET g == IF c.state = "Ready" THEN NewReadGen(addr, blockSize) ELSE c.readGen
        result(r) ==
          IF r.fault THEN r
          ELSE [r EXCEPT !.c = [r.c EXCEPT !.readGen = r.g,
                                           !.state = IF r.done THEN "Ready" ELSE @]]
    IN Then(TimedCache_makeReadGen([c EXCEPT !.state = "Reading", !.curAddr = addr],
                                   g, rnd),
            result)

\* TimedMemory::writeBlock on a cache
TimedCache_writeBlock(c, addr, block, rnd) ==
  IF c.state = "Reading" \/ (c.state # "Ready" /\ c.curAddr # addr)
  THEN GenRet(c, c.writeGen, FALSE, << >>, TRUE)
  ELSE
    LET g == IF c.state = "Ready" THEN NewWriteGen(addr, block) ELSE c.writeGen
        result(r) ==
          IF r.fault THEN r
          ELSE [r EXCEPT !.c = [r.c EXCEPT !.writeGen = r.g,
                                           !.state = IF r.done THEN "Ready" ELSE @]]
    IN Then(TimedCache_makeWriteGen([c EXCEPT !.state = "Writing", !.curAddr = addr],
                                    g, rnd),
            result)

\* a cache whose entries start dirty
TimedCache_startsDirty(blockSize, setSize, cacheSize, scheme, policy, lowerMem, latency) ==
  [blockSize |-> blockSize, setSize |-> setSize, cacheSize |-> cacheSize,
   scheme |-> scheme, policy |-> policy, latency |-> latency,
   entries |-> [i \in 0..(cacheSize - 1) |->
                  [valid |-> FALSE, dirty |-> TRUE, tag |-> 0,
                   block |-> [k \in 1..blockSize |-> 0], lastAccessedTime |-> 0]],
   lruBits |-> [set \in 0..(cacheSize \div setSize - 1) |->
                  [b \in 0..(setSize - 2) |-> FALSE]],
   totalAccessCount |-> 0,
   state |-> "Ready", curAddr |-> 0,
   readGen |-> [pc |-> "start", cycle |-> 0, addr |-> 0, n |-> 0,
                entryIdx |-> << >>, readResult |-> << >>],
   writeGen |-> [pc |-> "start", cycle |-> 0, addr |-> 0, block |-> << >>,
                 readGen |-> [pc |-> "start", cycle |-> 0, addr |-> 0, n |-> 0,
                              entryIdx |-> << >>, readResult |-> << >>]],
   lowerMem |-> lowerMem]

\* TimedCache::TimedCache; lowerMem is the memory the shared pointer names
TimedCache(blockSize, setSize, cacheSize, scheme, policy, lowerMem, latency) ==
  [blockSize |-> blockSize, setSize |-> setSize, cacheSize |-> cacheSize,
   scheme |-> scheme, policy |-> policy, latency |-> latency,
   entries |-> [i \in 0..(cacheSize - 1) |->
                  [valid |-> FALSE, dirty |-> FALSE, tag |-> 0,
                   block |-> [k \in 1..blockSize |-> 0], lastAccessedTime |-> 0]],
   lruBits |-> [set \in 0..(cacheSize \div setSize - 1) |->
                  [b \in 0..(setSize - 2) |-> FALSE]],
   totalAccessCount |-> 0,
   state |-> "Ready", curAddr |-> 0,
   readGen |-> NewReadGen(0, 0), writeGen |-> NewWriteGen(0, << >>),
   lowerMem |-> lowerMem]

\* The write generator keeps a reference to the Block it was created with.
\* DataMemoryUnit::operate passes a temporary, which is destroyed when the
\* call returns, so a write that is resumed by a later call reads a dangling
\* reference.  The outcomes of that read:
\*   "intended" the words the temporary held, "junk" other words,
\*   "abort" the run crashes.
DanglingOutcomes == {"intended", "junk", "abort"}
JunkWord == -1

\* the pending write is resumed for the last time by the next call: that
\* resumption is the one that reads the Block (storage.setSubblock)
readsDangling(m) == m.state = "Writing" /\ m.gen.cycle + 1 >= m.latency

\* dataMemory : DataMemoryUnit
\* isReady >> memHazardUnit.isDataMemoryReady
\* readData >> MEM_WB.buffer.readMemoryDataIn
DataMemoryUnit_operate(s, ub) ==
  IF s.dataMemory_ctrlMemRead # 0 THEN
    LET r == TimedMainMemory_readBlock(s.memory, s.dataMemory_address, 1)
    IN IF r.fault THEN [s EXCEPT !.fault = TRUE]
       ELSE [s EXCEPT !.memory = r.mem,
                      !.memHazardUnit_isDataMemoryReady = B2W(r.done),
                      !.MEM_WB_buffer_readMemoryDataIn =
                          IF r.done THEN r.val[1] ELSE @]
  ELSE IF s.dataMemory_ctrlMemWrite # 0 THEN
    LET resumed == readsDangling(s.memory)
        m0 == IF resumed /\ ub = "junk"
              THEN [s.memory EXCEPT !.gen.block = <<JunkWord>>] ELSE s.memory
        r == TimedMainMemory_writeBlock(m0, s.dataMemory_address,
                                        <<s.dataMemory_writeData>>)
    IN IF r.fault \/ (resumed /\ ub = "abort") THEN [s EXCEPT !.fault = TRUE]
       ELSE [s EXCEPT !.memory = r.mem,
                      !.memHazardUnit_isDataMemoryReady = B2W(r.done)]
  ELSE IF s.memory.state # "Ready" THEN [s EXCEPT !.fault = TRUE]
  ELSE [s EXCEPT !.memHazardUnit_isDataMemoryReady = 1]

\* ------------------------------------------- hazard detection, forwarding

\* hasDataHazard with the load-use check made on rs1 alone
hasDataHazard_rs1Only(s, rs1, rs2) ==
  IF s.isForwarding
  THEN s.ID_EX_ctrlMemReadIn # 0 /\ rs1 = s.ID_EX_writeRegisterIn
  ELSE \/ /\ s.ID_EX_ctrlRegWriteIn # 0
          /\ s.ID_EX_writeRegisterIn # 0
          /\ (rs1 = s.ID_EX_writeRegisterIn \/ rs2 = s.ID_EX_writeRegisterIn)
       \/ /\ s.EX_MEM_ctrlRegWriteIn # 0
          /\ s.EX_MEM_writeRegisterIn # 0
          /\ (rs1 = s.EX_MEM_writeRegisterIn \/ rs2 = s.EX_MEM_writeRegisterIn)

\* hasDataHazard with the no-forwarding check made against ID/EX alone
hasDataHazard_idexOnly(s, rs1, rs2) ==
  IF s.isForwarding
  THEN s.ID_EX_ctrlMemReadIn # 0 /\
       (rs1 = s.ID_EX_writeRegisterIn \/ rs2 = s.ID_EX_writeRegisterIn)
  ELSE /\ s.ID_EX_ctrlRegWriteIn # 0
       /\ s.ID_EX_writeRegisterIn # 0
       /\ (rs1 = s.ID_EX_writeRegisterIn \/ rs2 = s.ID_EX_writeRegisterIn)

\* DataHazardDetectionUnit::hasDataHazard
hasDataHazard(s, rs1, rs2) ==
  IF s.isForwarding
  THEN s.ID_EX_ctrlMemReadIn # 0 /\
       (rs1 = s.ID_EX_writeRegisterIn \/ rs2 = s.ID_EX_writeRegisterIn)
  ELSE \/ /\ s.ID_EX_ctrlRegWriteIn # 0
          /\ s.ID_EX_writeRegisterIn # 0
          /\ (rs1 = s.ID_EX_writeRegisterIn \/ rs2 = s.ID_EX_writeRegisterIn)
       \/ /\ s.EX_MEM_ctrlRegWriteIn # 0
          /\ s.EX_MEM_writeRegisterIn # 0
          /\ (rs1 = s.EX_MEM_writeRegisterIn \/ rs2 = s.EX_MEM_writeRegisterIn)

\* DataHazardDetectionUnit::operate
\* shouldFreezeIssue >> issueUnitFreezeDecisionMaker.input1
\* shouldFlushIF_ID >> IF_ID_flushDecisionMaker.input0
DataHazardDetectionUnit_operate(s) ==
  LET instruction == s.IF_ID_instructionIn
      shouldStall == B2W(hasDataHazard(s, instruction.rs1, instruction.rs2))
      shouldFlushIF_ID(v) == IF_ID_flushDecisionMaker_operate(
              [v EXCEPT !.IF_ID_flushDecisionMaker_input0 = shouldStall])
  IN Then(issueUnitFreezeDecisionMaker_operate(
            [s EXCEPT !.issueUnitFreezeDecisionMaker_input1 = shouldStall]),
          shouldFlushIF_ID)

\* MemoryHazardDetectionUnit::operate that leaves ID/EX running
MemoryHazardDetectionUnit_noIDEXFreeze(s) ==
  LET isBusy == B2W(s.memHazardUnit_isDataMemoryReady = 0)
      s1 == issueUnitFreezeDecisionMaker_operate(
              [s EXCEPT !.issueUnitFreezeDecisionMaker_input0 = isBusy])
  IN [s1 EXCEPT !.IF_ID_shouldFreeze = isBusy,
                !.EX_MEM_shouldFreeze = isBusy,
                !.MEM_WB_buffer_shouldFlush = isBusy]

\* MemoryHazardDetectionUnit::operate that leaves EX/MEM running
MemoryHazardDetectionUnit_noEXMEMFreeze(s) ==
  LET isBusy == B2W(s.memHazardUnit_isDataMemoryReady = 0)
      s1 == issueUnitFreezeDecisionMaker_operate(
              [s EXCEPT !.issueUnitFreezeDecisionMaker_input0 = isBusy])
  IN [s1 EXCEPT !.IF_ID_shouldFreeze = isBusy,
                !.ID_EX_shouldFreeze = isBusy,
                !.MEM_WB_buffer_shouldFlush = isBusy]

\* MemoryHazardDetectionUnit::operate that freezes but does not flush MEM/WB
MemoryHazardDetectionUnit_noFlush(s) ==
  LET isBusy == B2W(s.memHazardUnit_isDataMemoryReady = 0)
      s1 == issueUnitFreezeDecisionMaker_operate(
              [s EXCEPT !.issueUnitFreezeDecisionMaker_input0 = isBusy])
  IN [s1 EXCEPT !.IF_ID_shouldFreeze = isBusy,
                !.ID_EX_shouldFreeze = isBusy,
                !.EX_MEM_shouldFreeze = isBusy]

\* MemoryHazardDetectionUnit::operate
\* shouldFreezeIssue >> issueUnitFreezeDecisionMaker.input0
\* shouldFreezeIF_ID/ID_EX/EX_MEM >> the shouldFreeze inputs of the latches
\* shouldFlushMEM_WB >> MEM_WB.buffer.shouldFlush
MemoryHazardDetectionUnit_operate(s) ==
  LET isBusy == B2W(s.memHazardUnit_isDataMemoryReady = 0)
      s1 == issueUnitFreezeDecisionMaker_operate(
              [s EXCEPT !.issueUnitFreezeDecisionMaker_input0 = isBusy])
  IN [s1 EXCEPT !.IF_ID_shouldFreeze = isBusy,
                !.ID_EX_shouldFreeze = isBusy,
                !.EX_MEM_shouldFreeze = isBusy,
                !.MEM_WB_buffer_shouldFlush = isBusy]

\* a forwarding choice that prefers the instruction in MEM to the one in EX
ForwardedValue_memFirst(s, registerNum, cur) ==
  IF /\ s.MEM_WB_buffer_ctrlRegWriteIn # 0
     /\ s.MEM_WB_buffer_writeRegisterIn # 0
     /\ s.MEM_WB_buffer_writeRegisterIn = registerNum
  THEN IF s.MEM_WB_buffer_ctrlMemToRegIn # 0
       THEN s.MEM_WB_buffer_readMemoryDataIn
       ELSE s.MEM_WB_buffer_aluOutputIn
  ELSE IF /\ s.EX_MEM_ctrlRegWriteIn # 0
          /\ s.EX_MEM_writeRegisterIn # 0
          /\ s.EX_MEM_writeRegisterIn = registerNum
       THEN s.EX_MEM_aluOutputIn
       ELSE cur

\* the value ForwardingUnit::operate leaves in the register data signal of
\* source register registerNum, whose current value is cur
ForwardedValue(s, registerNum, cur) ==
  IF /\ s.EX_MEM_ctrlRegWriteIn # 0
     /\ s.EX_MEM_writeRegisterIn # 0
     /\ s.EX_MEM_writeRegisterIn = registerNum
  THEN s.EX_MEM_aluOutputIn
  ELSE IF /\ s.MEM_WB_buffer_ctrlRegWriteIn # 0
          /\ s.MEM_WB_buffer_writeRegisterIn # 0
          /\ s.MEM_WB_buffer_writeRegisterIn = registerNum
       THEN IF s.MEM_WB_buffer_ctrlMemToRegIn # 0
            THEN s.MEM_WB_buffer_readMemoryDataIn
            ELSE s.MEM_WB_buffer_aluOutputIn
       ELSE cur

\* ForwardingUnit::operate: assigns the InputSignals ID_EX.readData1In and
\* ID_EX.readData2In directly (no notification)
ForwardingUnit_operate(s) ==
  [s EXCEPT !.ID_EX_readData1In = ForwardedValue(s, s.ID_EX_readRegister1In, @),
            !.ID_EX_readData2In = ForwardedValue(s, s.ID_EX_readRegister2In, @)]

\* ---------------------------------------------------------- processor tick
\* Processor::executeOneCycle with the units registered by
\* PipelinedProcessor::registerUnits: no priority unit; bufferedUnits =
\* MEM_WB, issueUnit; syncedUnits = EX_MEM, dataMemory, ID_EX, IF_ID,
\* issueUnit, MEM_WB, hazardDetectionUnit, memHazardUnit and, with
\* forwarding, forwardingUnit.  obs_* are observers of the cycle: whether
\* the register file was written by write-back or by the link of a jump,
\* whether the data memory was busy when the cycle started, the units the
\* cycle has run, in the order in which it ran them, and the target of the
\* last control transfer ID has decided to take, kept while NOPs follow it
\* in ID (-1 when the last instruction in ID was not a taken transfer).
executeOneCycle(s, ub) ==
  LET ran(v, unit) == [v EXCEPT !.obs_order = Append(@, unit)]
      bufferMEM_WB(v) == ran(BufferedMEMWBRegisters_bufferInputs(v), "MEM_WB.bufferInputs")
      bufferIssueUnit(v) ==
        ran(BufferedInstructionIssueUnit_bufferInputs(v), "issueUnit.bufferInputs")
      EX_MEM(v) == ran(EXMEMRegisters_operate(v), "EX_MEM")
      dataMemory(v) == ran(DataMemoryUnit_operate(v, ub), "dataMemory")
      ID_EX(v) == ran(IDEXRegisters_operate(v), "ID_EX")
      IF_ID(v) == ran(IFIDRegisters_operate(v), "IF_ID")
      issueUnit(v) == ran(InstructionIssueUnit_out_operate(v), "issueUnit")
      MEM_WB(v) == ran(MEMWBRegisters_out_operate(v), "MEM_WB")
      hazardDetectionUnit(v) ==
        ran(DataHazardDetectionUnit_operate(v), "hazardDetectionUnit")
      memHazardUnit(v) == ran(MemoryHazardDetectionUnit_operate(v), "memHazardUnit")
      forwardingUnit(v) ==
        IF s.isForwarding THEN ran(ForwardingUnit_operate(v), "forwardingUnit") ELSE v
      branchTarget(v) ==
        LET i == v.IF_ID_out.instruction
        IN [v EXCEPT !.obs_target =
              IF isNop(i) THEN @
              ELSE IF /\ i.opcode \in {SBFmtOpcode, UJFmtOpcode, jalrIFmtOpcode}
                      /\ v.pcChooser_control # 0
                   THEN v.pcChooser_input1
                   ELSE -1]
  IN Then(Then(Then(Then(Then(Then(Then(Then(Then(Then(Then(Then(
       [s EXCEPT !.clockCycle = @ + 1,
                 !.obs_wbWrote = FALSE,
                 !.obs_linkWrote = FALSE,
                 !.obs_startBusy = (s.memory.state # "Ready"),
                 !.obs_order = << >>],
       bufferMEM_WB),
       bufferIssueUnit),
       EX_MEM),
       dataMemory),
       ID_EX),
       IF_ID),
       issueUnit),
       MEM_WB),
       hazardDetectionUnit),
       memHazardUnit),
       forwardingUnit),
       branchTarget)

\* value of every OutputSignal of a pipeline register after construction
IF_ID_out0 == [instruction |-> NopWord, pc |-> 0]
ID_EX_out0 ==
  [readData1 |-> 0, readData2 |-> 0, immediate |-> 0, instruction |-> NopWord,
   ctrlAluSrc |-> 0, ctrlAluOp |-> 0, ctrlMemWrite |-> 0, ctrlMemRead |-> 0,
   ctrlMemToReg |-> 0, ctrlRegWrite |-> 0, writeRegister |-> 0,
   readRegister1 |-> 0, readRegister2 |-> 0, pc |-> 0]
EX_MEM_out0 ==
  [zero |-> 0, aluOutput |-> 0, readData2 |-> 0, ctrlMemWrite |-> 0,
   ctrlMemRead |-> 0, ctrlMemToReg |-> 0, ctrlRegWrite |-> 0,
   writeRegister |-> 0, pc |-> 0, instruction |-> NopWord]
MEM_WB_out0 ==
  [readMemoryData |-> 0, aluOutput |-> 0, ctrlMemToReg |-> 0,
   writeRegister |-> 0, ctrlRegWrite |-> 0, pc |-> 0, instruction |-> NopWord]

\* PipelinedProcessor::PipelinedProcessor followed by the loading of the
\* program into the instruction memory (at address 0) and of the initial
\* words into the data memory.  Every signal is zero-initialised, except the
\* hardcoded pcAdder.input1.
PipelinedProcessor(useForwarding, memoryLatency, program, data) ==
  [isForwarding |-> useForwarding, clockCycle |-> 0, fault |-> FALSE,
   imem |-> program, memory |-> TimedMainMemory(memoryLatency, data),
   intRegs |-> [r \in 0..31 |-> 0],
   obs_wbWrote |-> FALSE, obs_linkWrote |-> FALSE, obs_startBusy |-> FALSE,
   obs_order |-> << >>, obs_target |-> -1,
   IF_ID_out |-> IF_ID_out0, ID_EX_out |-> ID_EX_out0,
   EX_MEM_out |-> EX_MEM_out0, MEM_WB_buffer_out |-> MEM_WB_out0,
   MEM_WB_out |-> MEM_WB_out0,
   issueUnit_buffer_pcOut |-> 0, issueUnit_out_pcOut |-> 0,
   pcAdder_input1 |-> 4, pcAdder_input0 |-> 0, pcAdder_aluOp |-> 0,
   pcChooser_control |-> 0, pcChooser_input0 |-> 0, pcChooser_input1 |-> 0,
   issueUnit_buffer_pcIn |-> 0, issueUnit_buffer_shouldFreeze |-> 0,
   issueUnit_out_shouldFreeze |-> 0,
   issueUnitFreezeDecisionMaker_input0 |-> 0,
   issueUnitFreezeDecisionMaker_input1 |-> 0,
   instructionMemory_address |-> 0,
   IF_ID_flushDecisionMaker_input0 |-> 0, IF_ID_flushDecisionMaker_input1 |-> 0,
   IF_ID_instructionIn |-> NopWord, IF_ID_pcIn |-> 0,
   IF_ID_shouldFlush |-> 0, IF_ID_shouldFreeze |-> 0,
   decoder_instruction |-> NopWord, control_instruction |-> NopWord,
   control_pc |-> 0, control_writeRegister |-> 0,
   immGen_instruction |-> NopWord,
   registers_ctrlRegWrite |-> 0, registers_writeRegister |-> 0,
   registers_writeData |-> 0, registers_readRegister1 |-> 0,
   registers_readRegister2 |-> 0,
   branchAddrChooser_control |-> 0, branchAddrChooser_input0 |-> 0,
   branchAddrChooser_input1 |-> 0,
   branchAddrAlu_aluOp |-> 0, branchAddrAlu_input0 |-> 0, branchAddrAlu_input1 |-> 0,
   branchDecisionAluControl_func3 |-> 0,
   branchDecisionAlu_branchAluOp |-> 0, branchDecisionAlu_input0 |-> 0,
   branchDecisionAlu_input1 |-> 0,
   condBranchDecisionMaker_input0 |-> 0, condBranchDecisionMaker_input1 |-> 0,
   branchDecisionMaker_input0 |-> 0, branchDecisionMaker_input1 |-> 0,
   ID_EX_readData1In |-> 0, ID_EX_readData2In |-> 0, ID_EX_immediateIn |-> 0,
   ID_EX_instructionIn |-> NopWord, ID_EX_ctrlAluSrcIn |-> 0,
   ID_EX_ctrlAluOpIn |-> 0, ID_EX_ctrlMemWriteIn |-> 0, ID_EX_ctrlMemReadIn |-> 0,
   ID_EX_ctrlMemToRegIn |-> 0, ID_EX_ctrlRegWriteIn |-> 0,
   ID_EX_writeRegisterIn |-> 0, ID_EX_readRegister1In |-> 0,
   ID_EX_readRegister2In |-> 0, ID_EX_pcIn |-> 0,
   ID_EX_shouldFlush |-> 0, ID_EX_shouldFreeze |-> 0,
   aluSrc2Chooser_control |-> 0, aluSrc2Chooser_input0 |-> 0,
   aluSrc2Chooser_input1 |-> 0,
   alu_aluOp |-> 0, alu_input0 |-> 0, alu_input1 |-> 0,
   aluControl_ctrlAluOp |-> 0, aluControl_instruction |-> NopWord,
   EX_MEM_zeroIn |-> 0, EX_MEM_aluOutputIn |-> 0, EX_MEM_readData2In |-> 0,
   EX_MEM_ctrlMemWriteIn |-> 0, EX_MEM_ctrlMemReadIn |-> 0,
   EX_MEM_ctrlMemToRegIn |-> 0, EX_MEM_ctrlRegWriteIn |-> 0,
   EX_MEM_writeRegisterIn |-> 0, EX_MEM_pcIn |-> 0,
   EX_MEM_instructionIn |-> NopWord,
   EX_MEM_shouldFlush |-> 0, EX_MEM_shouldFreeze |-> 0,
   dataMemory_address |-> 0, dataMemory_writeData |-> 0,
   dataMemory_ctrlMemWrite |-> 0, dataMemory_ctrlMemRead |-> 0,
   memHazardUnit_isDataMemoryReady |-> 0,
   MEM_WB_buffer_readMemoryDataIn |-> 0, MEM_WB_buffer_aluOutputIn |-> 0,
   MEM_WB_buffer_ctrlMemToRegIn |-> 0, MEM_WB_buffer_writeRegisterIn |-> 0,
   MEM_WB_buffer_ctrlRegWriteIn |-> 0, MEM_WB_buffer_pcIn |-> 0,
   MEM_WB_buffer_instructionIn |-> NopWord,
   MEM_WB_buffer_shouldFlush |-> 0, MEM_WB_out_shouldFlush |-> 0,
   writeBackSrcChooser_control |-> 0, writeBackSrcChooser_input0 |-> 0,
   writeBackSrcChooser_input1 |-> 0]

\* ------------------------------------------------------------ the programs
\* instructions the programs are drawn from
\* (the last one is a word whose opcode, 0b1111111, has no format)
Instrs ==
  { ADDI(1, 0, 1), ADD(2, 1, 1), LW(1, 0, 0), SW(1, 4, 0),
    BEQ(1, 0, 8), JAL(3, 8), JALR(3, 8, 0), JAL(0, 8),
    IWord(127, 0, 0, 0, 0, 0) }

Programs == UNION { [1..n -> Instrs] : n \in 1..MaxProgLen }

\* initial contents of the data memory: word 0 holds 5, the rest is zero
DataInit == [k \in 0..(MemWords - 1) |-> IF k = 0 THEN 5 ELSE 0]

\* proc is the processor of a single run.  fwd and nofwd are the processors
\* of a paired run: built with and without forwarding, they execute the same
\* program in lockstep on the same memory latency.  cache is the cache of a
\* cache run, call the readBlock or writeBlock call its driver repeats (with
\* the number of operations started, the number the driver starts in all,
\* the words the earlier operations named, and the words a flat memory would
\* hold once the operations started are done), and ret what the last call
\* returned.  mainMem is the main memory
\* of a memory run, memCall the last call its driver made (with the first
\* call of the operation in flight and the number of calls made for it),
\* and memRet what that call returned.  drive is the chain of units that one
\* OutputSignal::operator<< has notified so far, the unit that owns the
\* signal first.
VARIABLES proc, fwd, nofwd, cache, call, ret, mainMem, memCall, memRet, drive

vars == <<proc, fwd, nofwd, cache, call, ret, mainMem, memCall, memRet, drive>>

\* value of the variables of a run that has not been set up
NotBuilt == [built |-> FALSE]

\* the dangling Block is read only by the last resumption of a write
Outcomes(p) == IF readsDangling(p.memory) THEN DanglingOutcomes ELSE {"intended"}

\* ------------------------------------------------------- the single run
Init ==
  /\ \E program \in Programs, latency \in 1..MaxLatency, useForwarding \in BOOLEAN :
       proc = PipelinedProcessor(useForwarding, latency, program, DataInit)
  /\ fwd = NotBuilt /\ nofwd = NotBuilt
  /\ cache = NotBuilt /\ call = NotBuilt /\ ret = NotBuilt
  /\ mainMem = NotBuilt /\ memCall = NotBuilt /\ memRet = NotBuilt
  /\ drive = NotBuilt

\* one executeOneCycle; a failed assertion ends the run
Tick ==
  /\ ~proc.fault
  /\ proc.clockCycle < MaxCycles
  /\ \E ub \in Outcomes(proc) : proc' = executeOneCycle(proc, ub)
  /\ UNCHANGED <<fwd, nofwd, cache, call, ret, mainMem, memCall, memRet, drive>>

Next == Tick

Spec == Init /\ [][Next]_vars

\* ----------------------------------------------- the far-dependency run
\* Programs of four instructions: a producer of x1 (the value 4, computed or
\* loaded from word 0), two instructions that leave x1 alone, and a
\* conditional branch or jalr that reads x1.  One of the fillers names x0 as
\* its destination.
FarPrograms ==
  LET Producers == { ADDI(1, 0, 4), LW(1, 0, 0) }
      Fillers == { ADDI(2, 0, 2), ADD(2, 1, 1), SW(1, 4, 0), ADDI(0, 0, 2) }
      Consumers == { BEQ(1, 0, 8), BEQ(0, 1, 8), JALR(3, 8, 1) }
  IN { <<p, f1, f2, c>> :
         p \in Producers, f1 \in Fillers, f2 \in Fillers, c \in Consumers }

\* initial contents of the data memory: word 0 holds 4, the rest is zero
FarData == [k \in 0..(MemWords - 1) |-> IF k = 0 THEN 4 ELSE 0]

InitFar ==
  /\ \E program \in FarPrograms, latency \in 1..MaxLatency, useForwarding \in BOOLEAN :
       proc = PipelinedProcessor(useForwarding, latency, program, FarData)
  /\ fwd = NotBuilt /\ nofwd = NotBuilt
  /\ cache = NotBuilt /\ call = NotBuilt /\ ret = NotBuilt
  /\ mainMem = NotBuilt /\ memCall = NotBuilt /\ memRet = NotBuilt
  /\ drive = NotBuilt

SpecFar == InitFar /\ [][Next]_vars

\* ---------------------------------------------- the near-dependency run
\* Programs of three instructions: a first writer of x1 (the value 4,
\* computed or loaded), a second instruction that writes x1 again (2, or
\* twice its value) or writes x2, and a reader of x1 and x2.
NearPrograms ==
  LET Firsts == { ADDI(1, 0, 4), LW(1, 0, 0) }
      Seconds == { ADDI(1, 0, 2), ADD(1, 1, 1), ADDI(2, 0, 2) }
      Readers == { ADD(2, 1, 1), ADD(2, 2, 1), SW(1, 4, 0) }
  IN { <<p1, p2, c>> : p1 \in Firsts, p2 \in Seconds, c \in Readers }

InitNear ==
  /\ \E program \in NearPrograms, latency \in 1..MaxLatency, useForwarding \in BOOLEAN :
       proc = PipelinedProcessor(useForwarding, latency, program, FarData)
  /\ fwd = NotBuilt /\ nofwd = NotBuilt
  /\ cache = NotBuilt /\ call = NotBuilt /\ ret = NotBuilt
  /\ mainMem = NotBuilt /\ memCall = NotBuilt /\ memRet = NotBuilt
  /\ drive = NotBuilt

SpecNear == InitNear /\ [][Next]_vars

\* ---------------------------------------------- the integration tests
\* MemoryTimingTest.Latency2Cycles: lw x1, 0(x0); lw x2, 4(x0); add x3, x1, x2
Latency2Cycles == << LW(1, 0, 0), LW(2, 4, 0), ADD(3, 1, 2) >>

\* PipelinedProcessorIntegrationTest.SimpleLoop (loop.asm); immediates of
\* branches and jumps are byte offsets.  bge is the SB word of funct3 5.
SimpleLoop ==
  << ADDI(10, 0, 1), SW(10, 0, 0),
     ADDI(11, 0, 2), SW(11, 4, 0),
     ADDI(12, 0, 3), SW(12, 8, 0),
     ADD(21, 0, 0),
     ADD(10, 0, 0), ADDI(11, 0, 12),
     ADD(0, 0, 0), ADD(0, 0, 0),
     EncS(SBFmtOpcode, 5, 10, 11, 20),
     LW(20, 0, 10), ADD(21, 21, 20), ADDI(10, 10, 4), JAL(0, -16),
     SW(21, 12, 0) >>

\* Programs with a control transfer in the shadow of a stall: a writer of x1
\* (or a store, or a writer of the link register x3), possibly one more
\* instruction, a transfer to the instruction two places
\* ahead of it (always taken, but for the beq on x1), the instruction it
\* skips (which may read x1) and the one it lands on.
TransferPrograms ==
  LET Writers == { LW(1, 0, 0), ADDI(1, 0, 4), SW(1, 4, 0), ADDI(3, 0, 1) }
      Transfers(pc) == { JAL(3, 8), BEQ(0, 0, 8), BEQ(1, 0, 8), JALR(3, pc + 8, 0) }
      Skipped == { ADD(2, 1, 1), ADDI(2, 0, 2) }
      Landing == ADDI(2, 0, 3)
  IN { <<w, j, u, Landing>> : w \in Writers, j \in Transfers(4), u \in Skipped }
     \cup { <<w, ADDI(2, 0, 2), j, u, Landing>> :
               w \in Writers, j \in Transfers(8), u \in Skipped }

\* the tests build the processor, write the first two words of the data
\* memory (Latency2Cycles writes Block{1, 2}) and load the program
\* (AddImmediateInstruction loads addi x1, x2, 1000 alone; it is run here
\* also after a sub, and with the immediate 1024)
InitTest ==
  /\ \E program \in {Latency2Cycles, SimpleLoop} \cup TransferPrograms
                      \cup { <<ADDI(1, 2, 1000)>>,
                             <<SUB(2, 0, 0), ADDI(1, 2, 1000)>>,
                             <<ADDI(1, 2, 1024)>> },
        latency \in 1..MaxLatency,
        useForwarding \in BOOLEAN, w0 \in {1, 5}, w1 \in {2, -1} :
       proc = PipelinedProcessor(useForwarding, latency, program,
                [k \in 0..(MemWords - 1) |->
                   IF k = 0 THEN w0 ELSE IF k = 1 THEN w1 ELSE 0])
  /\ fwd = NotBuilt /\ nofwd = NotBuilt
  /\ cache = NotBuilt /\ call = NotBuilt /\ ret = NotBuilt
  /\ mainMem = NotBuilt /\ memCall = NotBuilt /\ memRet = NotBuilt
  /\ drive = NotBuilt

\* executeInstructionsFixed: one executeOneCycle per step
TestTick ==
  /\ ~proc.fault
  /\ proc.clockCycle < TestCycles
  /\ \E ub \in Outcomes(proc) : proc' = executeOneCycle(proc, ub)
  /\ UNCHANGED <<fwd, nofwd, cache, call, ret, mainMem, memCall, memRet, drive>>

SpecTest == InitTest /\ [][TestTick]_vars

\* ------------------------------------------------------- the paired run
InitPair ==
  /\ \E program \in Programs, latency \in 1..MaxLatency :
       /\ fwd = PipelinedProcessor(TRUE, latency, program, DataInit)
       /\ nofwd = PipelinedProcessor(FALSE, latency, program, DataInit)
  /\ proc = NotBuilt
  /\ cache = NotBuilt /\ call = NotBuilt /\ ret = NotBuilt
  /\ mainMem = NotBuilt /\ memCall = NotBuilt /\ memRet = NotBuilt
  /\ drive = NotBuilt

\* one executeOneCycle of a processor that has not aborted
Step(p, ub) == IF p.fault THEN p ELSE executeOneCycle(p, ub)

TickPair ==
  /\ ~fwd.fault \/ ~nofwd.fault
  /\ fwd.clockCycle < MaxCycles /\ nofwd.clockCycle < MaxCycles
  /\ \E ub1 \in Outcomes(fwd), ub2 \in Outcomes(nofwd) :
       /\ fwd' = Step(fwd, ub1)
       /\ nofwd' = Step(nofwd, ub2)
  /\ UNCHANGED <<proc, cache, call, ret, mainMem, memCall, memRet, drive>>

NextPair == TickPair

SpecPair == InitPair /\ [][NextPair]_vars

\* -------------------------------------------------------- the cache run
\* the caches explored: <<blockSize, setSize, cacheSize>>
CacheGeometries == { <<1, 1, 2>>, <<1, 2, 2>>, <<2, 1, 2>> }
WriteSchemes == {"WriteThrough", "WriteBack"}
ReplacementPolicies == {"Random", "PreciseLRU", "ApproximateLRU"}

\* the byte addresses the driver accesses
CacheAddrs == {0, 4, 8, 16}

\* initial contents of the lower memory: every word differs from the others
\* and from every word the driver writes
LowerInit == [k \in 0..(MemWords - 1) |-> 100 + k]

\* the block of n words written by the operation number op
FreshBlock(op, n) == [k \in 1..n |-> 10 * op + k]

\* the words a call on n words at byte address addr names
WordsOf(addr, n) == { addr \div 4 + k : k \in 0..(n - 1) }

\* the values rand() % setSize can take where the cache consults it
RandChoices(c) == IF c.policy = "Random" THEN 0..(c.setSize - 1) ELSE {0}

InitCache ==
  /\ \E geo \in CacheGeometries, scheme \in WriteSchemes,
        policy \in ReplacementPolicies,
        latency \in 1..MaxLatency, lowerLatency \in 1..MaxLatency :
       cache = TimedCache(geo[1], geo[2], geo[3], scheme, policy,
                          TimedMainMemory(lowerLatency, LowerInit), latency)
  /\ call = [kind |-> "none", addr |-> 0, n |-> 0, block |-> << >>, ops |-> 0,
             seen |-> {}, flat |-> LowerInit, max |-> MaxOps]
  /\ ret = [done |-> FALSE, val |-> << >>, fault |-> FALSE]
  /\ proc = NotBuilt /\ fwd = NotBuilt /\ nofwd = NotBuilt
  /\ mainMem = NotBuilt /\ memCall = NotBuilt /\ memRet = NotBuilt
  /\ drive = NotBuilt

\* what the driver keeps of a call's return
Returned(r) == [done |-> r.done, val |-> r.val, fault |-> r.fault]

\* the first readBlock call of TimedMemory::_readBlockTillDone
CacheRead ==
  /\ ~ret.fault /\ cache.state = "Ready" /\ call.ops < call.max
  /\ \E addr \in CacheAddrs, n \in {1, cache.blockSize}, rnd \in RandChoices(cache) :
       /\ isAligned(addr, n)
       /\ \E r \in {TimedCache_readBlock(cache, addr, n, rnd)} :
            /\ cache' = r.c
            /\ call' = [kind |-> "read", addr |-> addr, n |-> n,
                        block |-> << >>, ops |-> call.ops + 1,
                        seen |-> call.seen \cup WordsOf(call.addr, call.n),
                        flat |-> call.flat, max |-> call.max]
            /\ ret' = Returned(r)
  /\ UNCHANGED <<proc, fwd, nofwd, mainMem, memCall, memRet, drive>>

\* the first writeBlock call of TimedMemory::_writeBlockTillDone
CacheWrite ==
  /\ ~ret.fault /\ cache.state = "Ready" /\ call.ops < call.max
  /\ \E addr \in CacheAddrs, n \in {1, cache.blockSize}, rnd \in RandChoices(cache) :
       /\ isAligned(addr, n)
       /\ \E r \in {TimedCache_writeBlock(cache, addr,
                                            FreshBlock(call.ops + 1, n), rnd)} :
            /\ cache' = r.c
            /\ call' = [kind |-> "write", addr |-> addr, n |-> n,
                        block |-> FreshBlock(call.ops + 1, n), ops |-> call.ops + 1,
                        seen |-> call.seen \cup WordsOf(call.addr, call.n),
                        flat |-> setSubblock(call.flat, addr \div 4,
                                             FreshBlock(call.ops + 1, n)),
                        max |-> call.max]
            /\ ret' = Returned(r)
  /\ UNCHANGED <<proc, fwd, nofwd, mainMem, memCall, memRet, drive>>

\* a further call of the loop of _readBlockTillDone or _writeBlockTillDone:
\* the same call again, until it returns a block or true
CacheContinue ==
  /\ ~ret.fault /\ cache.state # "Ready"
  /\ \E rnd \in RandChoices(cache) :
       \E r \in {IF call.kind = "read"
                 THEN TimedCache_readBlock(cache, call.addr, call.n, rnd)
                 ELSE TimedCache_writeBlock(cache, call.addr, call.block, rnd)} :
         cache' = r.c /\ ret' = Returned(r)
  /\ UNCHANGED <<call, proc, fwd, nofwd, mainMem, memCall, memRet, drive>>

NextCache == CacheRead \/ CacheWrite \/ CacheContinue

SpecCache == InitCache /\ [][NextCache]_vars

\* the cache run of a driver that does not give up: the loops of
\* _readBlockTillDone and _writeBlockTillDone call again for as long as the
\* call returns no block, resp. false.  The runs are those of the cache run
\* with MaxLiveOps operations, too few for a set of two lines to need a
\* victim, so that one replacement policy stands for all.
InitLive ==
  /\ \E geo \in CacheGeometries, scheme \in WriteSchemes,
        policy \in {"PreciseLRU"},
        latency \in 1..MaxLatency, lowerLatency \in 1..MaxLatency :
       cache = TimedCache(geo[1], geo[2], geo[3], scheme, policy,
                          TimedMainMemory(lowerLatency, LowerInit), latency)
  /\ call = [kind |-> "none", addr |-> 0, n |-> 0, block |-> << >>, ops |-> 0,
             seen |-> {}, flat |-> LowerInit, max |-> MaxLiveOps]
  /\ ret = [done |-> FALSE, val |-> << >>, fault |-> FALSE]
  /\ proc = NotBuilt /\ fwd = NotBuilt /\ nofwd = NotBuilt
  /\ mainMem = NotBuilt /\ memCall = NotBuilt /\ memRet = NotBuilt
  /\ drive = NotBuilt

SpecCacheLive == InitLive /\ [][NextCache]_vars /\ WF_vars(CacheContinue)

\* the replacement run: the driver of the cache run on caches of one set of
\* two or of four one-word lines under the two LRU policies, with cache and
\* lower memory of latency 1, so that the set fills and lines are accessed
\* again before a miss needs a victim
InitLRU ==
  /\ \E geo \in { <<1, 2, 2>>, <<1, 4, 4>> }, scheme \in WriteSchemes,
        policy \in {"PreciseLRU", "ApproximateLRU"} :
       cache = TimedCache(geo[1], geo[2], geo[3], scheme, policy,
                          TimedMainMemory(1, LowerInit), 1)
  /\ call = [kind |-> "none", addr |-> 0, n |-> 0, block |-> << >>, ops |-> 0,
             seen |-> {}, flat |-> LowerInit, max |-> MaxLruOps]
  /\ ret = [done |-> FALSE, val |-> << >>, fault |-> FALSE]
  /\ proc = NotBuilt /\ fwd = NotBuilt /\ nofwd = NotBuilt
  /\ mainMem = NotBuilt /\ memCall = NotBuilt /\ memRet = NotBuilt
  /\ drive = NotBuilt

SpecLRU == InitLRU /\ [][NextCache]_vars

\* ------------------------------------------------------- the memory run
\* The driver of a memory run calls readBlock and writeBlock on a main memory
\* in any order and with any arguments, also while an operation is in flight.
\* It keeps every Block it passes alive, so the reference a write generator
\* holds stays valid.  A failed assertion ends the run.

\* the byte addresses the driver passes: two words of the storage and the
\* first address beyond the address space
MemAddrs == {0, 4, 2 ^ addressSpace}

\* the first call of an operation
FirstCall(kind, addr, n, block) ==
  [kind |-> kind, addr |-> addr, n |-> n, block |-> block]

\* what the driver records of a call: started tells whether the memory was
\* Ready when the call was made
Recorded(kind, addr, n, block, started) ==
  LET this == FirstCall(kind, addr, n, block)
  IN [kind |-> kind, addr |-> addr, n |-> n, block |-> block,
      first |-> IF started THEN this ELSE memCall.first,
      calls |-> IF started THEN 1 ELSE memCall.calls + 1,
      uniform |-> IF started THEN TRUE
                  ELSE memCall.uniform /\ this = memCall.first,
      total |-> memCall.total + 1]

InitMem ==
  /\ \E latency \in 1..MaxLatency : mainMem = TimedMainMemory(latency, LowerInit)
  /\ memCall = [kind |-> "none", addr |-> 0, n |-> 0, block |-> << >>,
                first |-> FirstCall("none", 0, 0, << >>),
                calls |-> 0, uniform |-> TRUE, total |-> 0]
  /\ memRet = [done |-> FALSE, val |-> << >>, fault |-> FALSE]
  /\ proc = NotBuilt /\ fwd = NotBuilt /\ nofwd = NotBuilt
  /\ cache = NotBuilt /\ call = NotBuilt /\ ret = NotBuilt
  /\ drive = NotBuilt

\* what the driver keeps of a call's return
MemReturned(r) == [done |-> r.done, val |-> r.val, fault |-> r.fault]

\* a call of readBlock
MemRead ==
  /\ ~memRet.fault /\ memCall.total < MaxMemCalls
  /\ \E addr \in MemAddrs, n \in 1..2 :
       \E r \in {TimedMainMemory_readBlock(mainMem, addr, n)} :
         /\ mainMem' = r.mem
         /\ memCall' = Recorded("read", addr, n, << >>, mainMem.state = "Ready")
         /\ memRet' = MemReturned(r)
  /\ UNCHANGED <<proc, fwd, nofwd, cache, call, ret, drive>>

\* a call of writeBlock, with the Block of the first call of the operation
\* in flight or with a new one
MemWrite ==
  /\ ~memRet.fault /\ memCall.total < MaxMemCalls
  /\ \E addr \in MemAddrs, n \in 1..2 :
       \E block \in {FreshBlock(memCall.total + 1, n)}
                     \cup {b \in {memCall.first.block} :
                             mainMem.state = "Writing" /\ Len(b) = n} :
         \E r \in {TimedMainMemory_writeBlock(mainMem, addr, block)} :
           /\ mainMem' = r.mem
           /\ memCall' = Recorded("write", addr, n, block, mainMem.state = "Ready")
           /\ memRet' = MemReturned(r)
  /\ UNCHANGED <<proc, fwd, nofwd, cache, call, ret, drive>>

NextMem == MemRead \/ MemWrite

SpecMem == InitMem /\ [][NextMem]_vars

\* ------------------------------------------------------- the signal drive
\* PipelinedProcessor::synchronizeSignals: the pairs <<u, v>> of units such
\* that an output signal of u is synced with an input signal of v (the two
\* halves of a buffered unit are named unit.buffer and unit.out)
synchronizeSignals ==
  { <<"pcAdder", "pcChooser">>, <<"branchAddrAlu", "pcChooser">>,
    <<"branchDecisionMaker", "pcChooser">>,
    <<"memHazardUnit", "issueUnitFreezeDecisionMaker">>,
    <<"hazardDetectionUnit", "issueUnitFreezeDecisionMaker">>,
    <<"pcChooser", "issueUnit.buffer">>,
    <<"issueUnitFreezeDecisionMaker", "issueUnit.buffer">>,
    <<"issueUnit.out", "pcAdder">>, <<"issueUnit.out", "instructionMemory">>,
    <<"hazardDetectionUnit", "IF_ID_flushDecisionMaker">>,
    <<"branchDecisionMaker", "IF_ID_flushDecisionMaker">>,
    <<"issueUnit.out", "IF_ID">>, <<"instructionMemory", "IF_ID">>,
    <<"IF_ID_flushDecisionMaker", "IF_ID">>, <<"memHazardUnit", "IF_ID">>,
    <<"IF_ID", "decoder">>, <<"IF_ID", "control">>, <<"decoder", "control">>,
    <<"decoder", "registers">>, <<"MEM_WB.out", "registers">>,
    <<"writeBackSrcChooser", "registers">>, <<"IF_ID", "immGen">>,
    <<"IF_ID", "branchAddrChooser">>, <<"registers", "branchAddrChooser">>,
    <<"control", "branchAddrChooser">>,
    <<"branchAddrChooser", "branchAddrAlu">>, <<"immGen", "branchAddrAlu">>,
    <<"decoder", "branchDecisionAluControl">>,
    <<"registers", "branchDecisionAlu">>,
    <<"branchDecisionAluControl", "branchDecisionAlu">>,
    <<"control", "condBranchDecisionMaker">>,
    <<"branchDecisionAlu", "condBranchDecisionMaker">>,
    <<"condBranchDecisionMaker", "branchDecisionMaker">>,
    <<"control", "branchDecisionMaker">>, <<"control", "ID_EX">>,
    <<"registers", "ID_EX">>, <<"immGen", "ID_EX">>, <<"IF_ID", "ID_EX">>,
    <<"decoder", "ID_EX">>, <<"memHazardUnit", "ID_EX">>,
    <<"ID_EX", "aluSrc2Chooser">>, <<"ID_EX", "alu">>,
    <<"aluSrc2Chooser", "alu">>, <<"aluControl", "alu">>,
    <<"ID_EX", "aluControl">>, <<"ID_EX", "EX_MEM">>, <<"alu", "EX_MEM">>,
    <<"memHazardUnit", "EX_MEM">>, <<"EX_MEM", "dataMemory">>,
    <<"dataMemory", "MEM_WB.buffer">>, <<"EX_MEM", "MEM_WB.buffer">>,
    <<"memHazardUnit", "MEM_WB.buffer">>,
    <<"MEM_WB.out", "writeBackSrcChooser">>,
    <<"dataMemory", "memHazardUnit">> }

\* a wiring in which every unit propagates its inputs at once
OutOfSyncUnits_all ==
  { e[1] : e \in synchronizeSignals } \cup { e[2] : e \in synchronizeSignals }

\* the units of PipelinedProcessor that derive from OutOfSyncUnit: their
\* notifyInputChange calls operate, which drives their output signals
OutOfSyncUnits ==
  { "IF_ID_flushDecisionMaker", "alu", "aluControl", "aluSrc2Chooser",
    "branchAddrAlu", "branchAddrChooser", "branchDecisionAlu",
    "branchDecisionAluControl", "branchDecisionMaker",
    "condBranchDecisionMaker", "control", "decoder", "immGen",
    "instructionMemory", "issueUnitFreezeDecisionMaker", "pcAdder",
    "pcChooser", "registers", "writeBackSrcChooser" }

\* operator<< on an output signal of any unit
InitDrive ==
  /\ \E u \in { e[1] : e \in synchronizeSignals } : drive = [path |-> <<u>>]
  /\ proc = NotBuilt /\ fwd = NotBuilt /\ nofwd = NotBuilt
  /\ cache = NotBuilt /\ call = NotBuilt /\ ret = NotBuilt
  /\ mainMem = NotBuilt /\ memCall = NotBuilt /\ memRet = NotBuilt

\* InputSignal::changeValue on a synced input of v: notifyInputChange of v
\* runs; for an OutOfSyncUnit the drive goes on from the outputs of v, for an
\* InSyncUnit it ends at v.  A drive that comes back to a unit it has
\* notified would go on for ever; it is followed until then.
notifyInputChange ==
  /\ LET u == drive.path[Len(drive.path)]
     IN /\ Len(drive.path) = 1 \/ u \in OutOfSyncUnits
        /\ \A k \in 1..(Len(drive.path) - 1) : drive.path[k] # u
        /\ \E e \in synchronizeSignals :
             e[1] = u /\ drive' = [path |-> Append(drive.path, e[2])]
  /\ UNCHANGED <<proc, fwd, nofwd, cache, call, ret, mainMem, memCall, memRet>>

SpecDrive == InitDrive /\ [][notifyInputChange]_vars

\* ------------------------------------------------- vocabulary of the claims
\* the instruction at byte address pc of the program's text (NOP past its end)
InstrAt(p, pc) ==
  IF pc \div 4 + 1 \in 1..Len(p.imem) THEN p.imem[pc \div 4 + 1] ELSE NopWord

isLoad(i) == i.opcode = loadIFmtOpcode
isAluInstr(i) == i.opcode \in {RFmtOpcode, aluIFmtOpcode}
isJump(i) == i.opcode \in {UJFmtOpcode, jalrIFmtOpcode}
isCondBranch(i) == i.opcode = SBFmtOpcode

\* instruction i reads integer register r as a source operand (RV32I formats)
Uses(i, r) ==
  \/ i.opcode \in {RFmtOpcode, aluIFmtOpcode, loadIFmtOpcode, jalrIFmtOpcode,
                   SFmtOpcode, SBFmtOpcode} /\ i.rs1 = r
  \/ i.opcode \in {RFmtOpcode, SFmtOpcode, SBFmtOpcode} /\ i.rs2 = r

\* no load of the program is immediately followed by a use of its destination
NoLoadUse(program) ==
  \A k \in 1..(Len(program) - 1) :
    isLoad(program[k]) => ~Uses(program[k + 1], program[k].rd)

\* the pipeline stage behind a latch output holds the instruction at pc
Holds(latch, p, pc) == latch.pc = pc /\ latch.instruction = InstrAt(p, pc)

\* a latch output carries a bubble: a NOP that writes nothing
Bubble(latch) ==
  /\ latch.instruction = NopWord
  /\ latch.ctrlRegWrite = 0 /\ latch.ctrlMemWrite = 0 /\ latch.ctrlMemRead = 0

\* the run has ended normally: no instruction is left in any stage and no
\* memory access is in flight
Completed(p) ==
  /\ ~p.fault
  /\ p.memory.state = "Ready"
  /\ isNop(p.IF_ID_instructionIn) /\ isNop(p.IF_ID_out.instruction)
  /\ isNop(p.ID_EX_out.instruction) /\ isNop(p.EX_MEM_out.instruction)
  /\ isNop(p.MEM_WB_out.instruction)

\* ------------------------------------------------------------------- C1
\* C1: for every program without a load immediately followed by a use of its
\* destination, the run with forwarding and the run without forwarding end with
\* the same register file and the same data memory.  Stated for the runs on
\* memory latency 1, in which no write is ever resumed.
C1_ForwardingEquivalence ==
  ( /\ fwd.memory.latency = 1
    /\ Completed(fwd) /\ Completed(nofwd) /\ NoLoadUse(fwd.imem) ) =>
    /\ fwd.intRegs = nofwd.intRegs
    /\ fwd.memory.storage = nofwd.memory.storage

\* ------------------------------------------------------------------- C2
\* C2: with forwarding and memory latency 1, when a load followed by a reader
\* of its destination reaches MEM, exactly one bubble separates the two: EX
\* holds a NOP and ID holds the reader.
C2_LoadUseOneStall ==
  (proc.isForwarding /\ proc.memory.latency = 1 /\ ~proc.fault) =>
    \A k \in 1..(Len(proc.imem) - 1) :
      LET a == 4 * (k - 1) IN
      ( /\ isLoad(InstrAt(proc, a))
        /\ Uses(InstrAt(proc, a + 4), InstrAt(proc, a).rd)
        /\ Holds(proc.EX_MEM_out, proc, a) ) =>
          /\ Bubble(proc.ID_EX_out)
          /\ Holds(proc.IF_ID_out, proc, a + 4)

C2_Witness ==
  /\ proc.isForwarding /\ proc.memory.latency = 1 /\ ~proc.fault
  /\ \E k \in 1..(Len(proc.imem) - 1) :
       LET a == 4 * (k - 1) IN
       /\ isLoad(InstrAt(proc, a))
       /\ Uses(InstrAt(proc, a + 4), InstrAt(proc, a).rd)
       /\ Holds(proc.EX_MEM_out, proc, a)
       /\ Bubble(proc.ID_EX_out)
       /\ Holds(proc.IF_ID_out, proc, a + 4)

\* ------------------------------------------------------------------- C3
\* C3: without forwarding and with memory latency 1, when an ALU instruction
\* or a load that writes a register other than x0 and is followed by a reader
\* of that register reaches WB, exactly two bubbles separate the two: MEM and
\* EX hold NOPs and ID holds the reader.
C3_RawTwoStalls ==
  (~proc.isForwarding /\ proc.memory.latency = 1 /\ ~proc.fault) =>
    \A k \in 1..(Len(proc.imem) - 1) :
      LET a == 4 * (k - 1) IN
      ( /\ isLoad(InstrAt(proc, a)) \/ isAluInstr(InstrAt(proc, a))
        /\ InstrAt(proc, a).rd # 0
        /\ Uses(InstrAt(proc, a + 4), InstrAt(proc, a).rd)
        /\ Holds(proc.MEM_WB_out, proc, a) ) =>
          /\ Bubble(proc.EX_MEM_out)
          /\ Bubble(proc.ID_EX_out)
          /\ Holds(proc.IF_ID_out, proc, a + 4)

C3_Witness ==
  /\ ~proc.isForwarding /\ proc.memory.latency = 1 /\ ~proc.fault
  /\ \E k \in 1..(Len(proc.imem) - 1) :
       LET a == 4 * (k - 1) IN
       /\ isLoad(InstrAt(proc, a))
       /\ Uses(InstrAt(proc, a + 4), InstrAt(proc, a).rd)
       /\ Holds(proc.MEM_WB_out, proc, a)
       /\ Bubble(proc.EX_MEM_out) /\ Bubble(proc.ID_EX_out)
       /\ Holds(proc.IF_ID_out, proc, a + 4)

\* ------------------------------------------------------------------- C4
\* C4: with forwarding, while a program without a load immediately followed by
\* a use of its destination runs, the data-hazard detector asserts neither the
\* issue freeze nor the IF/ID flush.
C4_NoStallWithoutLoadUse ==
  (proc.isForwarding /\ ~proc.fault /\ NoLoadUse(proc.imem)) =>
    /\ proc.issueUnitFreezeDecisionMaker_input1 = 0
    /\ proc.IF_ID_flushDecisionMaker_input0 = 0

\* ------------------------------------------------------------------- C5
\* a jump, or a conditional branch whose decision is "taken", is in ID
TakenInID(p) ==
  \/ isJump(p.IF_ID_out.instruction)
  \/ isCondBranch(p.IF_ID_out.instruction) /\ p.pcChooser_control # 0

C6_BusyFreezesLatches ==
  [][ ( /\ ~proc.fault /\ ~proc'.fault
        /\ proc.memory.state # "Ready" ) =>
      ( /\ proc'.issueUnit_out_pcOut = proc.issueUnit_out_pcOut
        /\ proc'.issueUnit_buffer_pcOut = proc.issueUnit_buffer_pcOut
        /\ proc'.IF_ID_out = proc.IF_ID_out
        /\ proc'.ID_EX_out = proc.ID_EX_out
        /\ proc'.EX_MEM_out = proc.EX_MEM_out ) ]_vars

\* a cycle that started with the memory busy has been executed while real
\* instructions were held in ID, EX and MEM
C6_Witness ==
  /\ ~proc.fault /\ proc.obs_startBusy
  /\ ~isNop(proc.IF_ID_out.instruction)
  /\ ~isNop(proc.ID_EX_out.instruction)
  /\ ~isNop(proc.EX_MEM_out.instruction)

LowerStorage(c) == c.lowerMem.storage

\* the byte address of the first word of the line held by entry i: the
\* line number is the tag followed by the set index
LineBase(c, i) ==
  (c.entries[i].tag * setCount(c) + i \div c.setSize) * nbytes(c.blockSize)

\* the entries of the set the address of the call in progress maps to
CallSet(c, addr) == SetEntries(c, indexBits(c, addr))

\* the call in progress needs a slot and its set has no free one
MustEvict(c, addr) ==
  /\ findCacheEntry(c, addr) = << >>
  /\ \A i \in CallSet(c, addr) : c.entries[i].valid

\* C8: under WriteBack a call changes the contents of the lower memory only
\* when the access misses in a set without a free slot that holds a dirty
\* line; hits, misses that fill a free slot and misses whose set holds no
\* dirty line leave the lower memory unchanged.
C8_WriteBackWritesOnlyOnDirtyEviction ==
  [][ (cache.scheme = "WriteBack" /\ LowerStorage(cache') # LowerStorage(cache))
        => /\ MustEvict(cache, call'.addr)
           /\ \E i \in CallSet(cache, call'.addr) : cache.entries[i].dirty ]_vars

\* a write-back cache holds a dirty line after two completed calls, the
\* last a write, and the lower memory still has its initial contents
C8_Witness ==
  /\ cache.scheme = "WriteBack" /\ call.kind = "write" /\ call.ops >= 2
  /\ ret.done /\ ~ret.fault
  /\ \E i \in DOMAIN cache.entries : cache.entries[i].valid /\ cache.entries[i].dirty
  /\ LowerStorage(cache) = LowerInit

\* C9: under WriteBack, a change of the lower memory is the store of the W
\* words of a valid dirty entry of the accessed set at that line's base
\* address and of nothing else, and when the line of a dirty entry is
\* replaced the lower memory holds the W words of the line at its base
\* address.
C9_EvictionWritesLineAtBase ==
  [][ cache.scheme = "WriteBack" =>
        /\ LowerStorage(cache') # LowerStorage(cache) =>
              \E i \in CallSet(cache, call'.addr) :
                 /\ cache.entries[i].valid /\ cache.entries[i].dirty
                 /\ LowerStorage(cache') =
                      setSubblock(LowerStorage(cache), LineBase(cache, i) \div 4,
                                  cache.entries[i].block)
        /\ \A i \in DOMAIN cache.entries :
              (cache.entries[i].valid /\ cache.entries[i].dirty
                 /\ ~cache'.entries[i].dirty)
              => getSubblock(LowerStorage(cache'), LineBase(cache, i) \div 4,
                             cache.blockSize) = cache.entries[i].block ]_vars

\* a call on a write-back cache has completed after the line of a dirty
\* entry was written back: the lower memory holds a written word, at an
\* address other than the one of the call
C9_Witness ==
  /\ cache.scheme = "WriteBack" /\ ret.done /\ ~ret.fault
  /\ \E k \in DOMAIN LowerStorage(cache) :
        /\ LowerStorage(cache)[k] # LowerInit[k]
        /\ k * 4 \notin call.addr..(call.addr + nbytes(cache.blockSize) - 1)

\* C10: under WriteThrough, when a writeBlock of a block at an address has
\* returned true, the lower memory holds the words of the block at that
\* address, whether or not the line is in the cache.
C10_WriteThroughConsistency ==
  (cache.scheme = "WriteThrough" /\ call.kind = "write" /\ ret.done /\ ~ret.fault)
    => getSubblock(LowerStorage(cache), call.addr \div 4, call.n) = call.block

\* a write on a write-through cache has returned true while the line was in
\* the cache (a hit: the entry holds the written words and is dirty)
C10_Witness ==
  /\ cache.scheme = "WriteThrough" /\ call.kind = "write" /\ ret.done /\ ~ret.fault
  /\ findCacheEntry(cache, call.addr) # << >>
  /\ cache.entries[findCacheEntry(cache, call.addr)[1]].dirty

\* ------------------------------------------------------------------ C11
\* C11: a completed cache read returns, for every word that no earlier
\* operation of the driver named, the value the backing memory held for that
\* word when the cache was built, whatever the line size, the associativity
\* and the replacement policy.
C11_ReadThrough ==
  (call.kind = "read" /\ ret.done /\ ~ret.fault) =>
    /\ Len(ret.val) = call.n
    /\ \A k \in 1..call.n :
         (call.addr \div 4 + k - 1) \notin call.seen
           => ret.val[k] = LowerInit[call.addr \div 4 + k - 1]

\* a read of a word never named before has completed on a miss that had to
\* evict a dirty line, several calls after it started
C11_Witness ==
  /\ call.kind = "read" /\ ret.done /\ ~ret.fault
  /\ call.seen \cap WordsOf(call.addr, call.n) = {}
  /\ call.seen # {}
  /\ cache.scheme = "WriteBack"
  /\ LowerStorage(cache) # LowerInit
  /\ cache.readGen.readResult # << >>

\* ------------------------------------------------------------ C12 .. C15
\* the driver of the memory run has made a call in this step
MemCalled == memCall'.total = memCall.total + 1

\* C12: a readBlock made while the main memory is Writing, and a writeBlock
\* made while it is Reading, fail an assertion and leave the memory and the
\* operation in flight as they were.
C12_OneOperationInFlight ==
  [][ ( /\ MemCalled
        /\ \/ mainMem.state = "Writing" /\ memCall'.kind = "read"
           \/ mainMem.state = "Reading" /\ memCall'.kind = "write" ) =>
      ( memRet'.fault /\ mainMem' = mainMem ) ]_vars

\* a readBlock has been rejected while a write, already resumed once, was in
\* flight at the same address
C12_Witness ==
  /\ memRet.fault
  /\ memCall.kind = "read" /\ memCall.first.kind = "write"
  /\ memCall.addr = memCall.first.addr
  /\ mainMem.state = "Writing" /\ mainMem.gen.cycle >= 1

\* C13: when a call on the main memory returns a block or true the memory is
\* Ready; when readBlock returns nothing it is Reading, and when writeBlock
\* returns false it is Writing.
C13_ReadyOnCompletion ==
  (memCall.kind # "none" /\ ~memRet.fault) =>
    /\ memRet.done => mainMem.state = "Ready"
    /\ (~memRet.done /\ memCall.kind = "read") => mainMem.state = "Reading"
    /\ (~memRet.done /\ memCall.kind = "write") => mainMem.state = "Writing"

\* a write that took several calls has returned true and left the memory
\* Ready
C13_Witness ==
  /\ memCall.kind = "write" /\ memRet.done /\ ~memRet.fault
  /\ memCall.calls >= 2
  /\ mainMem.state = "Ready"

\* C14: a call made while an operation is in flight, with an address or a
\* length other than those of the first call of the operation, fails an
\* assertion.
C14_DifferentTupleRejected ==
  [][ ( /\ MemCalled
        /\ mainMem.state # "Ready"
        /\ memCall'.addr # memCall.first.addr \/ memCall'.n # memCall.first.n ) =>
      memRet'.fault ]_vars

\* C15: an operation on a main memory of latency L whose calls all repeat the
\* first one completes at the L-th call and not before: a read returns the
\* requested words of the storage at the L-th call and never changes the
\* storage; a write leaves the storage alone until the L-th call, which
\* stores the block.
C15_LatencyExact ==
  [][ ( MemCalled /\ ~memRet'.fault /\ memCall'.uniform ) =>
      ( /\ memRet'.done <=> memCall'.calls = mainMem.latency
        /\ memCall'.kind = "read" =>
             /\ mainMem'.storage = mainMem.storage
             /\ memRet'.done =>
                  memRet'.val = getSubblock(mainMem.storage,
                                            memCall'.addr \div 4, memCall'.n)
        /\ memCall'.kind = "write" =>
             mainMem'.storage =
               IF memRet'.done
               THEN setSubblock(mainMem.storage, memCall'.addr \div 4,
                                memCall'.first.block)
               ELSE mainMem.storage ) ]_vars

\* a write on a memory of latency 2 or more has completed at its last call,
\* and a read of the same words has then completed too
C15_Witness ==
  /\ mainMem.latency >= 2
  /\ memCall.kind = "read" /\ memCall.uniform /\ memRet.done /\ ~memRet.fault
  /\ memCall.calls = mainMem.latency
  /\ mainMem.storage # LowerInit
  /\ memRet.val # getSubblock(LowerInit, memCall.addr \div 4, memCall.n)

\* ------------------------------------------------------------------ C16
\* the units of the priority phase and the place of a unit in a cycle
PriorityUnitNames == {"hazardDetectionUnit", "memHazardUnit", "forwardingUnit"}
PlaceOf(order, unit) == CHOOSE i \in DOMAIN order : order[i] = unit

\* C16: in every cycle the hazard-detection units and the forwarding unit
\* operate before every bufferInputs and before every pipeline register, and
\* the hazard-detection units operate before the forwarding unit.
C16_PriorityPhaseFirst ==
  (proc.clockCycle >= 1 /\ ~proc.fault) =>
    /\ \A i, j \in DOMAIN proc.obs_order :
         ( /\ proc.obs_order[i] \in PriorityUnitNames
           /\ proc.obs_order[j] \notin PriorityUnitNames ) => i < j
    /\ proc.isForwarding =>
         /\ PlaceOf(proc.obs_order, "hazardDetectionUnit")
              < PlaceOf(proc.obs_order, "forwardingUnit")
         /\ PlaceOf(proc.obs_order, "memHazardUnit")
              < PlaceOf(proc.obs_order, "forwardingUnit")

\* ------------------------------------------------------------------ C17
\* C17: in a cycle in which IF/ID is not frozen and latches a jal or jalr
\* with rd # 0, the control unit writes the link address pc + 4 into rd, and
\* rd holds it at the end of the cycle unless the write-back port, which
\* operates later in the cycle, writes rd too.  In every other cycle (IF/ID
\* frozen, or ID receiving anything but a jump with rd # 0) the control unit
\* writes no register.
C17_EagerLink ==
  [][ (~proc.fault /\ ~proc'.fault) =>
      LET decoded == proc.IF_ID_shouldFreeze = 0
          i == proc'.IF_ID_out.instruction
          links == decoded /\ isJump(i) /\ i.rd # 0
      IN /\ proc'.obs_linkWrote <=> links
         /\ ( /\ links
              /\ ~( proc'.obs_wbWrote /\ proc'.registers_writeRegister = i.rd ) )
              => proc'.intRegs[i.rd] = Add32(proc'.IF_ID_out.pc, 4) ]_vars

\* a jump that is not the first instruction of the program and has rd # 0 has
\* just been decoded: rd holds its link address while the jump is still in ID
C17_Witness ==
  /\ ~proc.fault /\ proc.obs_linkWrote
  /\ isJump(proc.IF_ID_out.instruction)
  /\ proc.IF_ID_out.pc > 0
  /\ Holds(proc.IF_ID_out, proc, proc.IF_ID_out.pc)
  /\ proc.intRegs[proc.IF_ID_out.instruction.rd] = proc.IF_ID_out.pc + 4
  /\ ~isJump(proc.MEM_WB_out.instruction)

\* ------------------------------------------------------------------ C18
\* C18: with forwarding, while the branch or jalr of a far-dependency program
\* is in ID, its outcome is the one the produced value x1 = 4 gives: a beq
\* of x1 and x0 is not taken, and a jalr to 8(x1) is taken to address 12.
C18_FarBranchUsesProducedValue ==
  ( /\ proc.isForwarding /\ ~proc.fault
    /\ Holds(proc.IF_ID_out, proc, 12) ) =>
    /\ isCondBranch(proc.IF_ID_out.instruction) => proc.pcChooser_control = 0
    /\ isJump(proc.IF_ID_out.instruction) =>
         /\ proc.pcChooser_control # 0
         /\ proc.pcChooser_input1 = 12

\* the jalr is in ID on a memory of latency 2 behind a load of x1 that has
\* reached WB
C18_Witness ==
  /\ proc.isForwarding /\ ~proc.fault /\ proc.memory.latency >= 2
  /\ Holds(proc.IF_ID_out, proc, 12)
  /\ isJump(proc.IF_ID_out.instruction)
  /\ isLoad(proc.imem[1])
  /\ Holds(proc.MEM_WB_out, proc, 0)
  /\ proc.pcChooser_input1 = 12

\* ------------------------------------------------------------------ C19
\* instruction i reads rs1, rs2 as a source operand (RV32I formats)
SourceRs1(i) ==
  i.opcode \in {RFmtOpcode, aluIFmtOpcode, loadIFmtOpcode, jalrIFmtOpcode,
                SFmtOpcode, SBFmtOpcode}
SourceRs2(i) == i.opcode \in {RFmtOpcode, SFmtOpcode, SBFmtOpcode}

\* the instruction behind a latch output writes integer register r
WritesReg(latch, r) == latch.ctrlRegWrite # 0 /\ latch.instruction.rd = r

\* what the instruction in MEM will write into its register: the word of the
\* data memory at its address for a load, else its ALU result
PayloadOfMEM(p) ==
  IF isLoad(p.EX_MEM_out.instruction)
  THEN p.memory.storage[p.EX_MEM_out.aluOutput \div 4]
  ELSE p.EX_MEM_out.aluOutput

\* the operand the forwarding order gives for register r, val being the
\* operand held by the input of ID/EX
OperandIs(p, r, val) ==
  IF WritesReg(p.ID_EX_out, r) THEN val = p.EX_MEM_aluOutputIn
  ELSE IF WritesReg(p.EX_MEM_out, r) THEN val = PayloadOfMEM(p)
  ELSE val = p.intRegs[r]

\* C19: with forwarding, at the end of a cycle that leaves the data memory
\* Ready, each source operand of the instruction in ID that is not x0 stands
\* at the input of ID/EX with the ALU result of the instruction in EX if that
\* one writes the register (also when the instruction in MEM writes it too),
\* else with the payload of the instruction in MEM if that one writes it,
\* else with the value of the register file.
C19_ForwardingOrder ==
  ( /\ proc.isForwarding /\ ~proc.fault /\ proc.clockCycle >= 1
    /\ proc.memory.state = "Ready" ) =>
    LET i == proc.IF_ID_out.instruction
    IN /\ (SourceRs1(i) /\ i.rs1 # 0)
            => OperandIs(proc, i.rs1, proc.ID_EX_readData1In)
       /\ (SourceRs2(i) /\ i.rs2 # 0)
            => OperandIs(proc, i.rs2, proc.ID_EX_readData2In)

\* the reader of x1 is in ID while the instructions in EX and in MEM both
\* write x1, with different values: the operand is the one of EX
C19_Witness ==
  /\ proc.isForwarding /\ ~proc.fault
  /\ proc.IF_ID_out.instruction = ADD(2, 1, 1)
  /\ WritesReg(proc.ID_EX_out, 1) /\ WritesReg(proc.EX_MEM_out, 1)
  /\ proc.EX_MEM_aluOutputIn # PayloadOfMEM(proc)
  /\ proc.ID_EX_readData1In = proc.EX_MEM_aluOutputIn
  /\ proc.ID_EX_readData2In = proc.EX_MEM_aluOutputIn

\* ------------------------------------------------------------------ C20
\* C20: once a cycle has run, when the instruction the control unit decoded
\* (the one in ID) is the all-zero NOP, every control output is 0: RegWrite,
\* AluSrc, AluOp, MemWrite, MemRead, MemToReg, Branch, UseRegBase and IsJump,
\* whatever instruction was decoded before it.
C20_NopZeroesControl ==
  ( /\ ~proc.fault /\ proc.clockCycle >= 1
    /\ isNop(proc.control_instruction) ) =>
    /\ proc.ID_EX_ctrlRegWriteIn = 0
    /\ proc.ID_EX_ctrlAluSrcIn = 0
    /\ proc.ID_EX_ctrlAluOpIn = 0
    /\ proc.ID_EX_ctrlMemWriteIn = 0
    /\ proc.ID_EX_ctrlMemReadIn = 0
    /\ proc.ID_EX_ctrlMemToRegIn = 0
    /\ proc.condBranchDecisionMaker_input0 = 0
    /\ proc.branchAddrChooser_control = 0
    /\ proc.branchDecisionMaker_input1 = 0

\* ------------------------------------------------------------------ C21
\* C21: a non-zero word with an unsupported opcode that reaches the decode
\* stage raises no error: the cycle that decodes it completes normally.
C21_UnsupportedOpcodeTolerated ==
  ( /\ proc.clockCycle >= 1
    /\ ~isNop(proc.decoder_instruction)
    /\ fmt(proc.decoder_instruction.opcode) = "invalid" ) => ~proc.fault

\* ------------------------------------------------------------------ C22
\* C22: whatever writes the integer register file has taken, writes to index
\* 0 of any value included, reading register x0 returns 0.
C22_X0IsZero == readRegister(proc.intRegs, 0) = 0

\* the write-back port has just written a non-zero value with x0 as its
\* destination, and x0 still reads 0
C22_Witness ==
  /\ ~proc.fault /\ proc.obs_wbWrote
  /\ proc.registers_writeRegister = 0 /\ proc.registers_writeData # 0
  /\ readRegister(proc.intRegs, 0) = 0

\* ------------------------------------------------------------------ C23
\* C23: with forwarding and a main memory of latency 2, the program
\* lw x1, 0(x0); lw x2, 4(x0); add x3, x1, x2 run from reset has
\* x1 = memory[0] after 6 cycles, x2 = memory[4] after 8 cycles and
\* x3 = memory[0] + memory[4] after 10 cycles.
C23_Latency2Cycles ==
  ( /\ proc.imem = Latency2Cycles /\ proc.isForwarding
    /\ proc.memory.latency = 2 /\ ~proc.fault ) =>
    /\ proc.clockCycle = 6 => proc.intRegs[1] = proc.memory.storage[0]
    /\ proc.clockCycle = 8 => proc.intRegs[2] = proc.memory.storage[1]
    /\ proc.clockCycle = 10 =>
          proc.intRegs[3] = Add32(proc.memory.storage[0], proc.memory.storage[1])

\* the run of the test after its 10th cycle: x3 = 1 + 2
C23_Witness ==
  /\ proc.imem = Latency2Cycles /\ proc.isForwarding
  /\ proc.memory.latency = 2 /\ ~proc.fault /\ proc.clockCycle = 10
  /\ proc.memory.storage[0] = 1 /\ proc.memory.storage[1] = 2
  /\ proc.intRegs[1] = 1 /\ proc.intRegs[2] = 2 /\ proc.intRegs[3] = 3

\* ------------------------------------------------------------------ C24
\* C24: with forwarding and latency 1, the loop program run from reset for
\* exactly 40 cycles leaves memory[0] = 1, memory[4] = 2, memory[8] = 3,
\* memory[12] = 6 and x10 = 12, x11 = 12, x20 = 3, x21 = 6.
C24_SimpleLoop ==
  ( /\ proc.imem = SimpleLoop /\ proc.isForwarding
    /\ proc.memory.latency = 1 /\ proc.clockCycle = 40 ) =>
    /\ ~proc.fault
    /\ proc.memory.storage[0] = 1 /\ proc.memory.storage[1] = 2
    /\ proc.memory.storage[2] = 3 /\ proc.memory.storage[3] = 6
    /\ proc.intRegs[10] = 12 /\ proc.intRegs[11] = 12
    /\ proc.intRegs[20] = 3 /\ proc.intRegs[21] = 6

\* the 40th cycle of the loop program has run and the sum is stored
C24_Witness ==
  /\ proc.imem = SimpleLoop /\ proc.isForwarding
  /\ proc.memory.latency = 1 /\ proc.clockCycle = 40 /\ ~proc.fault
  /\ proc.memory.storage[3] = 6 /\ proc.intRegs[21] = 6

\* ------------------------------------------------------------------ C25
\* C25: when ID has decided to take a conditional branch or a jump, the next
\* instruction other than a NOP that enters ID is the one at the target of
\* that transfer, with and without forwarding, whatever stall is asserted
\* in the cycle of the decision.
C25_TargetEntersNext ==
  [][ ( /\ ~proc.fault /\ ~proc'.fault
        /\ proc.obs_target # -1
        /\ proc'.IF_ID_out # proc.IF_ID_out
        /\ ~isNop(proc'.IF_ID_out.instruction) ) =>
      proc'.IF_ID_out.pc = proc.obs_target ]_vars

\* ------------------------------------------------------------------ C26
\* C26: the data-memory unit keeps to the protocol of the timed memory, for
\* every latency: in a cycle that starts with an access in flight the unit
\* is called with the same kind of operation (a read while Reading, a write
\* while Writing) and the same address, so it is never idle, and never
\* switches operation or address, while the memory is not Ready.
C26_ProtocolObeyed ==
  [][ (~proc.fault /\ proc.memory.state # "Ready") =>
      /\ proc'.dataMemory_address = proc.memory.curAddr
      /\ proc.memory.state = "Reading" => proc'.dataMemory_ctrlMemRead # 0
      /\ proc.memory.state = "Writing" =>
            (proc'.dataMemory_ctrlMemRead = 0 /\ proc'.dataMemory_ctrlMemWrite # 0)
    ]_vars

\* a read of latency 2 or more has just completed: the cycle started with
\* the access in flight and the unit repeated the read at the same address
C26_Witness ==
  /\ ~proc.fault /\ proc.obs_startBusy /\ proc.memory.latency >= 2
  /\ proc.memory.state = "Ready"
  /\ proc.dataMemory_ctrlMemRead # 0
  /\ proc.dataMemory_address = proc.memory.curAddr

\* ------------------------------------------------------------------ C27
\* C27: once the pipeline has drained, the destination rd # 0 of a jal or
\* jalr at address pc holds pc + 4 unless an instruction later in program
\* order writes rd, also when an earlier instruction that writes rd was
\* still in EX, MEM or WB when the jump was decoded.  Stated for the
\* programs with one transfer, at the end of their run.
C27_LinkSurvives ==
  ( /\ proc.imem \in TransferPrograms
    /\ proc.clockCycle = TestCycles /\ Completed(proc) ) =>
    \A k \in 1..Len(proc.imem) :
      LET j == proc.imem[k]
      IN ( /\ isJump(j) /\ j.rd # 0
           /\ \A l \in (k + 1)..Len(proc.imem) :
                 ~( /\ proc.imem[l].rd = j.rd
                    /\ (isLoad(proc.imem[l]) \/ isAluInstr(proc.imem[l])
                          \/ isJump(proc.imem[l])) ) )
         => proc.intRegs[j.rd] = 4 * (k - 1) + 4

\* ------------------------------------------------------------------ C28
\* the data-hazard detector asks for a stall at the end of the cycle
Stalled(p) == p.issueUnitFreezeDecisionMaker_input1 # 0

\* C28: an instruction held in IF by a data-hazard stall is neither dropped
\* nor duplicated.  In a cycle that follows a stall request ID receives a
\* NOP while the PC and the instruction in IF stay as they are; in a cycle
\* that follows no stall request (and no taken transfer) the instruction in
\* IF enters ID with its pc and the PC moves on, so that it enters once.
\* While the data memory freezes the stages, IF and ID keep what they hold.
C28_StallHoldsInstruction ==
  [][ (~proc.fault /\ ~proc'.fault) =>
      IF proc.IF_ID_shouldFreeze # 0
      THEN /\ proc'.IF_ID_out = proc.IF_ID_out
           /\ proc'.issueUnit_out_pcOut = proc.issueUnit_out_pcOut
           /\ proc'.IF_ID_instructionIn = proc.IF_ID_instructionIn
      ELSE IF Stalled(proc)
      THEN /\ isNop(proc'.IF_ID_out.instruction)
           /\ proc'.issueUnit_out_pcOut = proc.issueUnit_out_pcOut
           /\ proc'.IF_ID_instructionIn = proc.IF_ID_instructionIn
      ELSE proc.IF_ID_shouldFlush = 0 =>
             /\ proc'.IF_ID_out.instruction = proc.IF_ID_instructionIn
             /\ proc'.IF_ID_out.pc = proc.issueUnit_out_pcOut
             /\ proc'.issueUnit_out_pcOut = proc.issueUnit_buffer_pcIn
    ]_vars

\* with forwarding, a user of a load's destination has entered ID after one
\* stall cycle: the load is in MEM, the injected NOP in EX, the user in ID
\* with its own pc, and the PC has moved on to the next instruction
C28_Witness ==
  /\ ~proc.fault /\ proc.isForwarding
  /\ isLoad(proc.EX_MEM_out.instruction)
  /\ isNop(proc.ID_EX_out.instruction)
  /\ ~isNop(proc.IF_ID_out.instruction)
  /\ Uses(proc.IF_ID_out.instruction, proc.EX_MEM_out.instruction.rd)
  /\ Holds(proc.IF_ID_out, proc, proc.EX_MEM_out.pc + 4)
  /\ proc.issueUnit_out_pcOut = proc.IF_ID_out.pc + 4

\* ------------------------------------------------------------------ C29
\* C29: under WriteBack, a writeBlock on a line that is not in the cache
\* fails no assertion, at whatever offset of the line its address lies, and
\* when it has returned true the line is in the cache, dirty, and holds the
\* written words at the offset of the address and the words of the lower
\* memory everywhere else.
C29_WriteMissInstallsLine ==
  (cache.scheme = "WriteBack" /\ call.kind = "write") =>
    LET e == findCacheEntry(cache, call.addr)
        base == (call.addr \div nbytes(cache.blockSize)) * nbytes(cache.blockSize)
        line == getSubblock(LowerStorage(cache), base \div 4, cache.blockSize)
    IN /\ ret.fault => e # << >>
       /\ (ret.done /\ ~ret.fault /\ cache.writeGen.readGen.n # 0) =>
            /\ e # << >>
            /\ cache.entries[e[1]].dirty
            /\ cache.entries[e[1]].block =
                 Block_setSubblock(line, (call.addr - base) \div 4, call.block)

\* ------------------------------------------------------------------ C30
\* C30: a completed readBlock on the cache returns, for every word, what a
\* flat memory that started as the backing memory and took every writeBlock
\* of the driver would return: the words last written there through the
\* cache, or the initial words of the backing memory, under both write
\* schemes, every replacement policy and every geometry.
C30_FlatMemoryEquivalence ==
  (call.kind = "read" /\ ret.done /\ ~ret.fault) =>
    ret.val = getSubblock(call.flat, call.addr \div 4, call.n)

\* a read on a write-back cache has returned the words written through the
\* cache two operations before it, on a miss: the line was written back and
\* replaced in between and has been fetched again from the lower memory
C30_Witness ==
  /\ call.kind = "read" /\ ret.done /\ ~ret.fault /\ call.ops = MaxOps
  /\ cache.scheme = "WriteBack"
  /\ \A k \in 1..call.n : ret.val[k] = 10 + k
  /\ cache.readGen.readResult # << >>

\* ------------------------------------------------------------------ C31
\* C31, as stated: whenever an entry of the cache is dirty, its block differs
\* from the words the lower memory holds for its line.
C31_DirtyDiffersFromLower ==
  \A i \in DOMAIN cache.entries :
    (cache.entries[i].valid /\ cache.entries[i].dirty) =>
      cache.entries[i].block #
        getSubblock(LowerStorage(cache), LineBase(cache, i) \div 4, cache.blockSize)

\* C31, amended: only a dirty entry can differ from the lower memory: a
\* valid entry whose block is not what the lower memory holds for its line
\* is dirty (a dirty entry may or may not differ).
C31_OnlyDirtyDiffers ==
  \A i \in DOMAIN cache.entries :
    ( /\ cache.entries[i].valid
      /\ cache.entries[i].block #
           getSubblock(LowerStorage(cache), LineBase(cache, i) \div 4,
                       cache.blockSize) )
    => cache.entries[i].dirty

\* a write on a write-back cache has completed, and the entry of its line
\* is dirty and differs from the lower memory, which still has its initial
\* contents
C31_Witness ==
  /\ cache.scheme = "WriteBack" /\ call.kind = "write" /\ ret.done /\ ~ret.fault
  /\ LowerStorage(cache) = LowerInit
  /\ findCacheEntry(cache, call.addr) # << >>
  /\ LET i == findCacheEntry(cache, call.addr)[1]
     IN /\ cache.entries[i].dirty
        /\ cache.entries[i].block #
             getSubblock(LowerStorage(cache), LineBase(cache, i) \div 4,
                         cache.blockSize)

\* ------------------------------------------------------------------ C32
\* C32: on a read miss, the call of readBlock during which the lower
\* memory's readBlock returns the line is the call that installs the line
\* and yields the requested sub-block: the cache yields None only while the
\* lower read has not returned.
C32_YieldsWhenLowerReturns ==
  [][ ( /\ call'.kind = "read" /\ ~ret'.fault
        /\ cache.state = "Ready" \/ cache.readGen.readResult = << >>
        /\ cache'.readGen.readResult # << >> )
      => ret'.done ]_vars

\* ------------------------------------------------------------------ C33
\* C33: under PreciseLRU the lastAccessed stamps order the entries by their
\* most recent access, and the victim of a miss on a full set is the entry
\* accessed least recently: a step changes the stamp of no entry but the one
\* of the line of the call; when a call completes, the entry of its line
\* has a larger stamp than every other valid entry; and a valid entry whose
\* line is replaced has a smaller stamp than every other entry of its set,
\* all of which are valid.
C33_PreciseLRUVictim ==
  [][ (cache.policy = "PreciseLRU" /\ ~ret'.fault) =>
      LET stamp(c, i) == c.entries[i].lastAccessedTime
          hit == findCacheEntry(cache', call'.addr)
      IN /\ \A i \in DOMAIN cache.entries :
              (cache.entries[i].valid /\ cache'.entries[i].tag # cache.entries[i].tag)
              => /\ i \in CallSet(cache, call'.addr)
                 /\ \A j \in CallSet(cache, call'.addr) \ {i} :
                       cache.entries[j].valid /\ stamp(cache, i) < stamp(cache, j)
         /\ \A i \in DOMAIN cache.entries :
              ( \/ stamp(cache', i) # stamp(cache, i)
                \/ cache'.entries[i].valid # cache.entries[i].valid )
              => hit = <<i>>
         /\ (ret'.done /\ hit # << >>) =>
              \A j \in DOMAIN cache.entries \ {hit[1]} :
                 cache'.entries[j].valid => stamp(cache', j) < stamp(cache', hit[1]) ]_vars

\* the fourth operation, a read, has replaced the line of the second slot of
\* a full set of two: that line, written in the meantime, was accessed less
\* recently than the line of the first slot, which was installed before it
\* and read again after it
C33_Witness ==
  /\ cache.policy = "PreciseLRU" /\ cache.scheme = "WriteBack" /\ cache.setSize = 2
  /\ call.kind = "read" /\ call.ops = 4 /\ ret.done /\ ~ret.fault
  /\ cache.readGen.readResult # << >>
  /\ findCacheEntry(cache, call.addr) = <<1>>
  /\ cache.entries[0].valid
  /\ cache.entries[0].lastAccessedTime < cache.entries[1].lastAccessedTime
  /\ LowerStorage(cache) # LowerInit

\* ------------------------------------------------------------------ C34
\* C34: under ApproximateLRU, when a call has completed on a line held in
\* slot i of a set that is full, the walk over the tree bits of that set
\* that chooses a victim ends on a slot of the set other than i.
C34_AccessedSlotNotVictim ==
  ( /\ cache.policy = "ApproximateLRU" /\ cache.setSize >= 2
    /\ call.kind # "none" /\ ret.done /\ ~ret.fault
    /\ findCacheEntry(cache, call.addr) # << >>
    /\ \A j \in CallSet(cache, call.addr) : cache.entries[j].valid )
  => LET victim == selectEvictionIndex(cache, indexBits(cache, call.addr), 0)
     IN /\ victim \in CallSet(cache, call.addr)
        /\ victim # findCacheEntry(cache, call.addr)[1]

\* the last operation of a run has hit the third slot of a full set of four,
\* and the walk ends on the first slot
C34_Witness ==
  /\ cache.policy = "ApproximateLRU" /\ cache.setSize = 4
  /\ call.ops = MaxLruOps /\ ret.done /\ ~ret.fault
  /\ \A j \in CallSet(cache, call.addr) : cache.entries[j].valid
  /\ findCacheEntry(cache, call.addr) = <<2>>
  /\ selectEvictionIndex(cache, indexBits(cache, call.addr), 0) = 0

\* ------------------------------------------------------------------ C35
\* C35: while the set of the call has an invalid slot, a miss evicts and
\* writes back nothing: a valid entry loses its line only when every entry
\* of its set is valid; a line that enters a set with an invalid slot enters
\* an invalid slot; and a call that starts on a line not in the cache, on a
\* set with an invalid slot, changes the lower memory only by its own
\* write-through.
C35_InvalidSlotFirst ==
  [][ ~ret'.fault =>
      LET set == CallSet(cache, call'.addr)
          free == { j \in set : ~cache.entries[j].valid }
          was == findCacheEntry(cache, call'.addr)
          now == findCacheEntry(cache', call'.addr)
      IN /\ \A i \in DOMAIN cache.entries :
              ( /\ cache.entries[i].valid
                /\ \/ ~cache'.entries[i].valid
                   \/ cache'.entries[i].tag # cache.entries[i].tag )
              => (i \in set /\ free = {})
         /\ (was = << >> /\ now # << >> /\ free # {}) => now[1] \in free
         /\ (was = << >> /\ free # {}) =>
              \/ LowerStorage(cache') = LowerStorage(cache)
              \/ /\ cache.scheme = "WriteThrough" /\ call'.kind = "write"
                 /\ LowerStorage(cache') =
                      setSubblock(LowerStorage(cache), call'.addr \div 4, call'.block) ]_vars

\* the second operation of a run, a read under the Random policy, has missed
\* in a set of two whose first slot holds a dirty line, and its line is in
\* the second slot
C35_Witness ==
  /\ cache.policy = "Random" /\ cache.setSize = 2 /\ cache.scheme = "WriteBack"
  /\ call.kind = "read" /\ call.ops = 2 /\ ret.done /\ ~ret.fault
  /\ cache.readGen.readResult # << >>
  /\ cache.entries[0].valid /\ cache.entries[0].dirty
  /\ findCacheEntry(cache, call.addr) = <<1>>
  /\ LowerStorage(cache) = LowerInit

\* ------------------------------------------------------------------ C36
\* C36: while the instruction in EX has ctrlAluOp = 0b10, the operation the
\* ALU control drives is the one RV32I assigns to its funct3 and funct7: Add
\* for add and Sub for sub, and Add for addi whatever its immediate and
\* whatever the operation of the instruction before it.
C36_AluControlRV32I ==
  LET i == proc.aluControl_instruction
  IN ( /\ proc.clockCycle >= 1 /\ ~proc.fault
       /\ proc.aluControl_ctrlAluOp = 2 /\ ~isNop(i) /\ i.funct3 = 0 ) =>
     /\ (i.opcode = aluIFmtOpcode) => proc.alu_aluOp = ALUOp_Add
     /\ (i.opcode = RFmtOpcode /\ i.funct7 = 0) => proc.alu_aluOp = ALUOp_Add
     /\ (i.opcode = RFmtOpcode /\ i.funct7 = 32) => proc.alu_aluOp = ALUOp_Sub

\* ------------------------------------------------------------------ C37
\* C37: an operation of the cache that is in flight and has failed no
\* assertion completes (the call returns a block, resp. true) or fails an
\* assertion after finitely many further calls with the same arguments.
C37_OperationCompletes ==
  (call.kind # "none" /\ ~ret.done /\ ~ret.fault) ~> (ret.done \/ ret.fault)

\* a read on a write-back cache has completed on a miss after the write-back
\* of a dirty line, with cache and lower memory of the largest latency: the
\* lower memory holds a written word and the entry of the read is clean
C37_Witness ==
  /\ cache.scheme = "WriteBack" /\ cache.latency = MaxLatency
  /\ cache.lowerMem.latency = MaxLatency
  /\ call.kind = "read" /\ ret.done /\ ~ret.fault
  /\ cache.readGen.readResult # << >>
  /\ LowerStorage(cache) # LowerInit
  /\ ~cache.entries[findCacheEntry(cache, call.addr)[1]].dirty

\* ------------------------------------------------------------------ C38
\* C38: a drive of a signal notifies no unit twice: the chain of
\* notifyInputChange calls that an operator<< starts never comes back to a
\* unit it has passed, so it ends, at the latest when it reaches a clocked
\* unit, whose notifyInputChange does nothing.
C38_DriveTerminates ==
  \A j, k \in 1..Len(drive.path) : (j < k /\ drive.path[j] = drive.path[k]) =>
    (j = 1 /\ k = Len(drive.path) /\ drive.path[k] \notin OutOfSyncUnits)

\* a drive that started at the output half of MEM/WB has passed the
\* write-back multiplexer, the register file and the branch units and has
\* reached the buffer half of the issue unit
C38_Witness ==
  /\ Len(drive.path) >= 8
  /\ drive.path[1] = "MEM_WB.out"
  /\ drive.path[2] = "writeBackSrcChooser"
  /\ drive.path[3] = "registers"
  /\ drive.path[Len(drive.path) - 1] = "pcChooser"
  /\ drive.path[Len(drive.path)] = "issueUnit.buffer"

\* ------------------------------------------------------------------ C39
\* C39: in every state of the cache, between calls and in the middle of an
\* operation, every entry that is dirty is valid.
C39_DirtyImpliesValid ==
  \A i \in DOMAIN cache.entries : cache.entries[i].dirty => cache.entries[i].valid

\* the cache holds a dirty entry, a clean valid entry that has replaced a
\* dirty one (the lower memory holds a written word), and the third
\* operation has completed
C39_Witness ==
  /\ call.ops = MaxOps /\ ret.done /\ ~ret.fault
  /\ LowerStorage(cache) # LowerInit /\ cache.scheme = "WriteBack"
  /\ \E i, j \in DOMAIN cache.entries :
       /\ cache.entries[i].valid /\ cache.entries[i].dirty
       /\ cache.entries[j].valid /\ ~cache.entries[j].dirty

\* ------------------------------------------------------------------ C40
\* C40: no set of the cache holds two valid entries with the same tag.
C40_OneEntryPerLine ==
  \A i, j \in DOMAIN cache.entries :
    ( /\ i # j /\ i \div cache.setSize = j \div cache.setSize
      /\ cache.entries[i].valid /\ cache.entries[j].valid )
    => cache.entries[i].tag # cache.entries[j].tag

\* a set of four is full, a line of it has been replaced, and the last
\* operation of the run has hit a slot other than the first
C40_Witness ==
  /\ cache.setSize = 4 /\ call.ops = MaxLruOps /\ ret.done /\ ~ret.fault
  /\ \A i \in DOMAIN cache.entries : cache.entries[i].valid
  /\ call.kind = "read" /\ cache.readGen.readResult = << >>
  /\ findCacheEntry(cache, call.addr) # <<0>>

=============================================================================
